---- MODULE Spec2Model ----
(***************************************************************************)
(* Model of the CacheFly Terraform provider core (package cachefly):       *)
(*   - makeRequestWithRetry, the retrying transport (helpers.go);          *)
(*   - manageServiceDomains, the domain reconciler (helpers.go);           *)
(*   - updateServiceDetails, the service description update                *)
(*     (resource_service.go);                                              *)
(*   - configureReverseProxy and getServiceOptions, the options            *)
(*     configurator (resource_service.go);                                 *)
(*   - the create, read, update and delete handlers of the service         *)
(*     resource (resource_service.go).                                     *)
(* The remote API is the environment: every request is answered by a       *)
(* status code or by a transport failure, chosen nondeterministically.     *)
(***************************************************************************)
EXTENDS Integers, Sequences, FiniteSets, TLC

VARIABLES
    remote,             \* remote side: the service's domain records
    nextId,             \* remote side: next fresh record id
    svcDescription,     \* remote side: the service record's description
    svcStatus,          \* remote side: the service record's status
    options,            \* remote side: the service's options document
    services,           \* remote side: the account's service records
    proxy,              \* the ReverseProxy handed to configureReverseProxy
    uniqueName,         \* unique_name of the resource configuration
    errorTtl,           \* error_ttl block of the configuration (<<>> is none)
    passThrough,        \* hostname_pass_through of the configuration
    changed,            \* attributes for which d.HasChange holds in an update
    currentState,       \* configureReverseProxy: the fetched reverse proxy state
    writes,             \* configureReverseProxy: option payloads it has sent
    handler,            \* resource handler in progress, or the last one run
    hpc,                \* position inside the handler
    resourceId,         \* d.Id(), 0 is the empty id
    diags,              \* diagnostics returned by the handler (<<>> is none)
    found,              \* create: the record findServiceByUniqueName returned
    peers,              \* the locals of two concurrent calls of one operation
    hcalls,             \* calls the handler has made, in order
    desired,            \* desiredDomains, the caller's list
    newDescription,     \* the description handed to updateServiceDetails
    runs,               \* operations started so far
    op,                 \* the operation in progress, or the last one run
    pc,                 \* position inside the operation ("idle", "done": not running)
    existingDomainMap,  \* manageServiceDomains: name -> fetched record
    processedDomains,   \* manageServiceDomains: names marked processed
    idx,                \* manageServiceDomains: index into desiredDomains
    unvisited,          \* deleteUnusedDomains: names the range loop has yet to delete
    calls,              \* mutation calls issued by the current reconciliation
    ret,                \* error returned by the last operation (<<>> is nil)
    prev,               \* name and returned error of the previous operation
    req,                \* request handed to the transport
    tpc,                \* transport position: "idle", "loop", "ret"
    attempt,            \* makeRequestWithRetry: loop variable
    lastErr,            \* makeRequestWithRetry: lastErr (<<>> is nil)
    resp,               \* response of the latest attempt (status 0 is nil)
    err,                \* error of the latest attempt (<<>> is nil)
    delay,              \* makeRequestWithRetry: delay slept after the latest attempt, ms
    requests,           \* HTTP requests sent for the current call
    sleeps,             \* time.Sleep calls made for the current call
    lastCause,          \* cause of the latest failed attempt of the current call
    retried,            \* TRUE when the current call goes through makeRequestWithRetry
    tret                \* value returned by the transport to its caller

vars == <<remote, nextId, svcDescription, svcStatus, options, services,
          desired, newDescription, proxy, uniqueName, errorTtl, passThrough, changed,
          runs, op, pc, currentState, writes, handler, hpc, resourceId, diags, found,
          hcalls, peers,
          existingDomainMap, processedDomains, idx, unvisited, calls, ret, prev,
          req, tpc, attempt, lastErr, resp, err, delay, requests, sleeps,
          lastCause, retried, tret>>

remoteVars == <<remote, nextId, svcDescription, svcStatus, options, services>>
inputVars == <<desired, newDescription, proxy, uniqueName, errorTtl, passThrough, changed>>
proxyVars == <<currentState, writes>>
handlerVars == <<handler, hpc, resourceId, diags, found, hcalls>>
reconVars == <<existingDomainMap, processedDomains, idx, unvisited, calls>>
calleeVars == <<op, pc, ret, prev, reconVars, proxyVars>>
transportVars == <<req, tpc, attempt, lastErr, resp, err, delay, requests, sleeps,
                   lastCause, retried, tret>>

----------------------------------------------------------------------------
(* Bounds of the model *)

MaxDesired == 2         \* longest desired list
MaxRuns == 2            \* operations run in succession
MaxProxyRuns == 1       \* runs of configureReverseProxy in succession

(* Program constants *)

maxRetries == 5
baseDelay == 1000       \* time.Second, in milliseconds
jitterRange == 100      \* rand.Intn(100)

----------------------------------------------------------------------------
(* Strings are sequences of characters so that suffixes are computed. *)

aCom == <<"a", ".", "c", "o", "m">>
oldNet == <<"o", "l", "d", "c", "a", "c", "h", "e", "f", "l", "y", ".", "n", "e", "t">>
keepNet == <<"k", ".", "c", "a", "c", "h", "e", "f", "l", "y", ".", "n", "e", "t">>
defaultSuffix == <<".", "c", "a", "c", "h", "e", "f", "l", "y", ".", "n", "e", "t">>

Names == {aCom, oldNet, keepNet}
Descriptions == {"", "d"}
ValidationModes == {"NONE", "DNS"}

HasSuffix(s, suffix) ==
    /\ Len(s) >= Len(suffix)
    /\ SubSeq(s, Len(s) - Len(suffix) + 1, Len(s)) = suffix

isDefaultDomainNoDot(name) == HasSuffix(name, Tail(defaultSuffix))

isDefaultDomain(name) == HasSuffix(name, defaultSuffix)

needsUpdateSwapped(existing, description, validationMode) ==
    existing.description # validationMode \/ existing.validationMode # description

needsUpdateAnd(existing, description, validationMode) ==
    existing.description # description /\ existing.validationMode # validationMode

needsUpdate(existing, description, validationMode) ==
    existing.description # description \/ existing.validationMode # validationMode

mapNoDomains(domains) == [n \in {} |-> 0]

mapExistingDomains(domains) ==
    [n \in {d.name : d \in domains} |-> CHOOSE d \in domains : d.name = n]

----------------------------------------------------------------------------
(* Errors are chains of messages, outermost first; <<>> is nil. *)

Nil == <<>>
Wrap(msg, e) == <<msg>> \o e

NetErrors == {"timeout"}
StatusCodes == {200, 204, 404, 503}

StatusText(s) ==
    CASE s = 200 -> "HTTP 200"
      [] s = 204 -> "HTTP 204"
      [] s = 404 -> "HTTP 404"
      [] s = 503 -> "HTTP 503"
      [] OTHER -> "HTTP ?"

NilResp == [status |-> 0, decodable |-> TRUE, data |-> {}]

handleResponse(r) ==
    IF r.status >= 200 /\ r.status < 300 THEN Nil ELSE <<StatusText(r.status)>>

----------------------------------------------------------------------------
(* The remote API (environment). *)

DomainRecord(id, name, description, validationMode) ==
    [id |-> id, name |-> name, description |-> description,
     validationMode |-> validationMode]

NoRequest ==
    [kind |-> "none", method |-> "", id |-> 0, name |-> <<>>,
     description |-> "", validationMode |-> ""]

Request(kind, method, id, name, description, validationMode) ==
    [kind |-> kind, method |-> method, id |-> id, name |-> name,
     description |-> description, validationMode |-> validationMode]

\* A service record of the account, as the listing returns it.
Service(id, name, status) == [id |-> id, uniqueName |-> name, status |-> status]

NoService == Service(0, <<>>, "")

\* The id the remote gives to the next service record.
NewServiceId ==
    LET ids == {s.id : s \in services} IN
    IF ids = {} THEN 1 ELSE 1 + CHOOSE i \in ids : \A j \in ids : j <= i

\* A request that carries a JSON body.
WithBody(r, body) == [body |-> body] @@ r

\* json.Marshal of ServiceResource{Description: description}: name and uniqueName
\* have no omitempty tag and are always written, here as empty strings; the other
\* fields are left out when they hold the zero value, an empty description too.
marshalService(description) ==
    IF description = ""
    THEN [name |-> "", uniqueName |-> ""]
    ELSE [name |-> "", uniqueName |-> "", description |-> description]

\* The fields of the ReverseProxy struct, under their JSON names.
ReverseProxy(enabled, hostname, mode, plain, prepend, accessKey, secretKey, region, bucket) ==
    [enabled |-> enabled, hostname |-> hostname, mode |-> mode,
     originScheme |-> plain.originScheme, cacheByQueryParam |-> plain.cacheByQueryParam,
     ttl |-> plain.ttl, useRobotsTxt |-> plain.useRobotsTxt, prepend |-> prepend,
     accessKey |-> accessKey, secretKey |-> secretKey, region |-> region,
     bucket |-> bucket]

\* ReverseProxy{}: the zero value of the struct
ZeroReverseProxy ==
    ReverseProxy(FALSE, "", "",
                 [originScheme |-> "", cacheByQueryParam |-> FALSE, ttl |-> 0,
                  useRobotsTxt |-> FALSE],
                 "", "", "", "", "")

\* The options document of a service: reverse proxy, error TTL (<<>> is null),
\* pass-through.
ServiceOptions(reverseProxy, errorTTL, hostnamePassThrough) ==
    [reverseProxy |-> reverseProxy, error_ttl |-> errorTTL,
     edgetoorigin |-> hostnamePassThrough]

\* PUT options merges the body into the document: a sub-document named in the
\* body replaces the fields it carries and keeps the others.
MergeOptions(old, body) ==
    [k \in DOMAIN old |->
        IF k \notin DOMAIN body THEN old[k]
        ELSE IF k = "reverseProxy" THEN body[k] @@ old[k]
        ELSE body[k]]

\* The remote accepts a request only when its target is valid: domain names are
\* unique within the service, and an update or delete needs an existing id.
Acceptable(r) ==
    CASE r.kind = "createDomain" -> \A d \in remote : d.name # r.name
      [] r.kind = "updateDomain" -> \E d \in remote : d.id = r.id
      [] r.kind = "deleteDomain" -> \E d \in remote : d.id = r.id
      [] r.kind = "createService" -> \A x \in services : x.uniqueName # r.name
      [] r.kind = "activateService" -> \E x \in services : x.id = r.id
      [] r.kind = "getService" -> \E x \in services : x.id = r.id
      [] OTHER -> TRUE

\* A read of one service record is answered not-found exactly when the remote
\* holds no such record; for the other requests 404 stands for any 4xx.
MayAnswer(r, status) ==
    /\ status < 300 => Acceptable(r)
    /\ (status = 404 /\ r.kind = "getService") => ~Acceptable(r)

Unchanged ==
    [remote |-> remote, nextId |-> nextId, svcDescription |-> svcDescription,
     svcStatus |-> svcStatus, options |-> options, services |-> services]

\* The remote state after the request took effect.
Effect(r) ==
    CASE r.kind = "createDomain" ->
            [Unchanged EXCEPT
                !.remote = remote \cup
                    {DomainRecord(nextId, r.name, r.description, r.validationMode)},
                !.nextId = nextId + 1]
      [] r.kind = "updateDomain" ->
            [Unchanged EXCEPT
                !.remote = {IF d.id = r.id
                            THEN DomainRecord(d.id, r.name, r.description, r.validationMode)
                            ELSE d : d \in remote}]
      [] r.kind = "deleteDomain" ->
            [Unchanged EXCEPT !.remote = {d \in remote : d.id # r.id}]
      [] r.kind = "updateService" ->
            [Unchanged EXCEPT
                !.svcDescription = IF "description" \in DOMAIN r.body
                                   THEN r.body.description ELSE svcDescription]
      [] r.kind = "deactivateService" ->
            [Unchanged EXCEPT
                !.svcStatus = "DEACTIVATED",
                !.services = {IF x.id = r.id THEN Service(x.id, x.uniqueName, "DEACTIVATED")
                              ELSE x : x \in services}]
      [] r.kind = "activateService" ->
            [Unchanged EXCEPT
                !.services = {IF x.id = r.id THEN Service(x.id, x.uniqueName, "ACTIVE")
                              ELSE x : x \in services}]
      [] r.kind = "createService" ->
            [Unchanged EXCEPT
                !.services = services \cup {Service(NewServiceId, r.name, "ACTIVE")}]
      [] r.kind = "putOptions" ->
            [Unchanged EXCEPT !.options = MergeOptions(options, r.body)]
      [] OTHER -> Unchanged

\* The requests whose response body the caller decodes, and the body the remote
\* sends: a set of records (the options document is a set of one).

Body(r) ==
    CASE r.kind = "fetchDomains" -> remote
      [] r.kind = "getOptions" -> {options}
      [] r.kind = "listServices" -> services
      [] r.kind = "createService" -> {Service(NewServiceId, r.name, "ACTIVE")}
      [] r.kind = "getService" -> {x \in services : x.id = r.id}
      [] OTHER -> {}

\* What one HTTP exchange can yield: a response with a status code (a 2xx means the
\* request took effect), or a transport failure, before or after the request took
\* effect at the remote.
Answers(r) ==
    {[resp |-> [status |-> s, decodable |-> dec,
                data |-> IF s < 300 /\ dec THEN Body(r) ELSE {}],
      neterr |-> "", after |-> IF s < 300 THEN Effect(r) ELSE Unchanged] :
        s \in {c \in StatusCodes : MayAnswer(r, c)},
        dec \in IF r.kind \in {"fetchDomains", "getOptions", "listServices",
                               "createService", "getService"}
                THEN BOOLEAN ELSE {TRUE}} \cup
    {[resp |-> NilResp, neterr |-> e, after |-> a] :
        e \in NetErrors,
        a \in {Unchanged} \cup (IF Acceptable(r) THEN {Effect(r)} ELSE {})}

----------------------------------------------------------------------------
(* makeRequest and makeRequestWithRetry *)

\* makeRequest: the response and the error of one exchange.
makeRequest(answer) ==
    IF answer.neterr # ""
    THEN [resp |-> NilResp, err |-> Wrap("failed to send request", <<answer.neterr>>)]
    ELSE [resp |-> answer.resp, err |-> Nil]

shouldReturnBelow400(r, e) == e = Nil /\ r.status < 400

\* helpers.go:56
shouldReturn(r, e) == e = Nil /\ r.status < 500

RECURSIVE Pow2(_)
Pow2(n) == IF n <= 0 THEN 1 ELSE 2 * Pow2(n - 1)

\* rand.Intn(100), sampled at the ends of its range
Jitters == {0, jitterRange - 1}

backoffDelayLinear(n, jitter) == (n + 1) * baseDelay + jitter

\* helpers.go:76-77, in milliseconds
backoffDelay(n, jitter) == Pow2(n) * baseDelay + jitter

loopContinuesOneMore(n) == n <= maxRetries

\* helpers.go:54, the loop condition
loopContinues(n) == n < maxRetries

\* helpers.go:70-73
nextLastErr(previous, e) == IF e # Nil THEN e ELSE previous

sleepsUnlessLast(n) == n + 1 < maxRetries

\* helpers.go:78: the sleep at the end of the loop body is unconditional
sleepsAfter(n) == TRUE

\* The time slept by a call whose first n attempts failed, the jitter left out
RECURSIVE SleptAfter(_)
SleptAfter(n) == IF n = 0 THEN 0 ELSE SleptAfter(n - 1) + backoffDelay(n - 1, 0)

exhaustedError(e) == Wrap("request failed after 5 attempts", e)

NoReturn == [resp |-> NilResp, err |-> Nil]

TransportIdle ==
    /\ req' = NoRequest
    /\ tpc' = "idle"
    /\ attempt' = 0
    /\ lastErr' = Nil
    /\ resp' = NilResp
    /\ err' = Nil
    /\ delay' = 0
    /\ requests' = 0
    /\ sleeps' = 0
    /\ lastCause' = Nil
    /\ retried' = FALSE
    /\ tret' = NoReturn

\* A caller enters makeRequestWithRetry.
Call(r) ==
    /\ req' = r
    /\ tpc' = "loop"
    /\ attempt' = 0
    /\ lastErr' = Nil
    /\ resp' = NilResp
    /\ err' = Nil
    /\ delay' = 0
    /\ requests' = 0
    /\ sleeps' = 0
    /\ lastCause' = Nil
    /\ retried' = TRUE
    /\ tret' = NoReturn

\* One iteration of the retry loop: the request, then either the return or the
\* bookkeeping and the sleep.
Attempt ==
    /\ tpc = "loop"
    /\ retried
    /\ loopContinues(attempt)
    /\ \E answer \in Answers(req), jitter \in Jitters :
        LET m == makeRequest(answer) IN
        /\ remote' = answer.after.remote
        /\ nextId' = answer.after.nextId
        /\ svcDescription' = answer.after.svcDescription
        /\ svcStatus' = answer.after.svcStatus
        /\ options' = answer.after.options
        /\ services' = answer.after.services
        /\ resp' = m.resp
        /\ err' = m.err
        /\ requests' = requests + 1
        /\ IF shouldReturn(m.resp, m.err)
           THEN /\ tpc' = "ret"
                /\ tret' = [resp |-> m.resp, err |-> Nil]
                /\ delay' = 0
                /\ UNCHANGED <<attempt, lastErr, sleeps, lastCause>>
           ELSE /\ lastErr' = nextLastErr(lastErr, m.err)
                /\ lastCause' = IF m.err # Nil THEN m.err ELSE <<StatusText(m.resp.status)>>
                /\ delay' = IF sleepsAfter(attempt)
                             THEN backoffDelay(attempt, jitter) ELSE delay
                /\ sleeps' = IF sleepsAfter(attempt) THEN sleeps + 1 ELSE sleeps
                /\ attempt' = attempt + 1
                /\ UNCHANGED <<tpc, tret>>
    /\ UNCHANGED <<inputVars, peers, proxyVars, handlerVars, runs, op, pc, reconVars, ret, prev,
                   req, retried>>

\* The loop ends without a return: helpers.go:81.
Exhausted ==
    /\ tpc = "loop"
    /\ retried
    /\ ~loopContinues(attempt)
    /\ tpc' = "ret"
    /\ tret' = [resp |-> NilResp, err |-> exhaustedError(lastErr)]
    /\ UNCHANGED <<remoteVars, inputVars, peers, proxyVars, handlerVars, runs, op, pc,
                   reconVars, ret, prev, req,
                   attempt, lastErr, resp, err, delay, requests, sleeps, lastCause,
                   retried>>

----------------------------------------------------------------------------
(* manageServiceDomains and its helpers *)

NoCalls == <<>>
EmptyMap == [n \in {} |-> 0]

CallEntry(kind, id, name, description, validationMode) ==
    [kind |-> kind, id |-> id, name |-> name, description |-> description,
     validationMode |-> validationMode, outcome |-> "pending", err |-> Nil]

\* The latest call of the log gets its outcome.
Settle(log, e) ==
    [log EXCEPT ![Len(log)].outcome = IF e = Nil THEN "ok" ELSE "failed",
                ![Len(log)].err = e]

\* fetchExistingDomains, after the transport returned t
fetchExistingDomains(t) ==
    IF t.err # Nil
    THEN [domains |-> {}, err |-> Wrap("failed to fetch domains after retries", t.err)]
    ELSE IF t.resp.status # 200
    THEN [domains |-> {}, err |-> <<"failed to fetch domains", StatusText(t.resp.status)>>]
    ELSE IF ~t.resp.decodable
    THEN [domains |-> {}, err |-> <<"failed to decode domains response">>]
    ELSE [domains |-> t.resp.data, err |-> Nil]

\* updateServiceDomain, after the transport returned t
updateServiceDomain(t) ==
    IF t.err # Nil
    THEN Wrap("failed to update service domain after retries", t.err)
    ELSE IF handleResponse(t.resp) # Nil
    THEN Wrap("failed to update service domain", handleResponse(t.resp))
    ELSE Nil

\* createServiceDomain, after the transport returned t
createServiceDomain(t) ==
    IF t.err # Nil
    THEN Wrap("failed to create service domain after retries", t.err)
    ELSE IF handleResponse(t.resp) # Nil
    THEN Wrap("failed to create service domain", handleResponse(t.resp))
    ELSE Nil

\* deleteServiceDomain, after the transport returned t
deleteServiceDomain(t) ==
    IF t.err # Nil
    THEN Wrap("failed to send DELETE request after retries", t.err)
    ELSE IF t.resp.status # 200
    THEN <<"failed to delete domain", StatusText(t.resp.status)>>
    ELSE Nil

\* The operation returns e to its caller.
Finish(e) ==
    /\ ret' = e
    /\ pc' = "done"
    /\ TransportIdle
    /\ UNCHANGED <<op, prev>>

\* The caller reconciles, and reconciles again after a reconciliation that succeeded.
\* The caller side of manageServiceDomains' entry: the fetch of the domains.
EnterManage ==
    /\ op' = "manageServiceDomains"
    /\ pc' = "fetch"
    /\ prev' = [op |-> op, ret |-> ret]
    /\ existingDomainMap' = EmptyMap
    /\ processedDomains' = {}
    /\ idx' = 1
    /\ unvisited' = {}
    /\ calls' = NoCalls
    /\ Call(Request("fetchDomains", "GET", 0, <<>>, "", ""))

StartManage ==
    /\ pc = "idle" \/ (pc = "done" /\ ret = Nil)
    /\ runs < MaxRuns
    /\ runs' = runs + 1
    /\ EnterManage
    /\ UNCHANGED <<remoteVars, inputVars, peers, proxyVars, handlerVars, ret>>

\* helpers.go:155-164
AfterFetch ==
    /\ op = "manageServiceDomains"
    /\ pc = "fetch"
    /\ tpc = "ret"
    /\ LET f == fetchExistingDomains(tret) IN
        IF f.err # Nil
        THEN /\ Finish(Wrap("failed to fetch existing domains", f.err))
             /\ UNCHANGED <<reconVars>>
        ELSE /\ existingDomainMap' = mapExistingDomains(f.domains)
             /\ processedDomains' = {}
             /\ idx' = 1
             /\ pc' = "desired"
             /\ TransportIdle
             /\ UNCHANGED <<op, ret, prev, unvisited, calls>>
    /\ UNCHANGED <<remoteVars, inputVars, peers, proxyVars, handlerVars, runs>>

\* helpers.go:173-175, the branch taken for one desired domain
branchFor(existingMap, d) ==
    IF d.name \in DOMAIN existingMap
    THEN IF needsUpdate(existingMap[d.name], d.description, d.validation_mode)
         THEN "update" ELSE "skip"
    ELSE "create"

nextDesiredBackwards(list, i) == list[Len(list) + 1 - i]

\* helpers.go:167: for _, d := range desiredDomains, the element of iteration i
nextDesired(list, i) == list[i]

\* helpers.go:167-189, one iteration up to its remote call (if any)
DesiredStep ==
    /\ op = "manageServiceDomains"
    /\ pc = "desired"
    /\ idx <= Len(desired)
    /\ LET d == nextDesired(desired, idx)
           b == branchFor(existingDomainMap, d) IN
        CASE b = "update" ->
                /\ pc' = "update"
                /\ calls' = Append(calls, CallEntry("update", existingDomainMap[d.name].id,
                                       d.name, d.description, d.validation_mode))
                /\ Call(Request("updateDomain", "PUT", existingDomainMap[d.name].id,
                                d.name, d.description, d.validation_mode))
                /\ UNCHANGED <<processedDomains, idx>>
          [] b = "create" ->
                /\ pc' = "create"
                /\ calls' = Append(calls, CallEntry("create", 0,
                                       d.name, d.description, d.validation_mode))
                /\ Call(Request("createDomain", "POST", 0,
                                d.name, d.description, d.validation_mode))
                /\ UNCHANGED <<processedDomains, idx>>
          [] OTHER ->
                /\ processedDomains' = processedDomains \cup {d.name}
                /\ idx' = idx + 1
                /\ UNCHANGED <<pc, calls, transportVars>>
    /\ UNCHANGED <<remoteVars, inputVars, peers, proxyVars, handlerVars, runs, op, ret, prev,
                   existingDomainMap, unvisited>>

neverAborts(e) == FALSE

\* helpers.go:176-178, 182-184, 271-273: a failed call ends the reconciliation.
abortsOn(e) == e # Nil

\* helpers.go:176-178 and 187-188
AfterUpdate ==
    /\ op = "manageServiceDomains"
    /\ pc = "update"
    /\ tpc = "ret"
    /\ LET e == updateServiceDomain(tret) IN
        /\ calls' = Settle(calls, e)
        /\ IF abortsOn(e)
           THEN /\ Finish(Wrap("failed to update domain", e))
                /\ UNCHANGED <<processedDomains, idx>>
           ELSE /\ processedDomains' = processedDomains \cup
                                        {nextDesired(desired, idx).name}
                /\ idx' = idx + 1
                /\ pc' = "desired"
                /\ TransportIdle
                /\ UNCHANGED <<op, ret, prev>>
    /\ UNCHANGED <<remoteVars, inputVars, peers, proxyVars, handlerVars, runs,
                   existingDomainMap, unvisited>>

\* helpers.go:182-184 and 187-188
AfterCreate ==
    /\ op = "manageServiceDomains"
    /\ pc = "create"
    /\ tpc = "ret"
    /\ LET e == createServiceDomain(tret) IN
        /\ calls' = Settle(calls, e)
        /\ IF abortsOn(e)
           THEN /\ Finish(Wrap("failed to create domain", e))
                /\ UNCHANGED <<processedDomains, idx>>
           ELSE /\ processedDomains' = processedDomains \cup
                                        {nextDesired(desired, idx).name}
                /\ idx' = idx + 1
                /\ pc' = "desired"
                /\ TransportIdle
                /\ UNCHANGED <<op, ret, prev>>
    /\ UNCHANGED <<remoteVars, inputVars, peers, proxyVars, handlerVars, runs,
                   existingDomainMap, unvisited>>

skipsProcessedOnly(processed, name) == processed

\* helpers.go:266
skips(processed, name) == processed \/ isDefaultDomain(name)

\* helpers.go:192 and 263-268: the desired list is done, deleteUnusedDomains starts;
\* the names its range loop skips need no further step.
EnterDelete ==
    /\ op = "manageServiceDomains"
    /\ pc = "desired"
    /\ idx > Len(desired)
    /\ pc' = "unused"
    /\ unvisited' = {n \in DOMAIN existingDomainMap : ~skips(n \in processedDomains, n)}
    /\ UNCHANGED <<remoteVars, inputVars, peers, proxyVars, handlerVars, runs, op, ret, prev,
                   existingDomainMap,
                   processedDomains, idx, calls, transportVars>>

\* helpers.go:264-273: the range loop reaches the names it does not skip in any
\* order (a Go map) and issues a delete call for each.
DeleteStep ==
    /\ op = "manageServiceDomains"
    /\ pc = "unused"
    /\ \E name \in unvisited :
        /\ unvisited' = unvisited \ {name}
        /\ pc' = "delete"
        /\ calls' = Append(calls, CallEntry("delete", existingDomainMap[name].id,
                               name, "", ""))
        /\ Call(Request("deleteDomain", "DELETE", existingDomainMap[name].id,
                        name, "", ""))
    /\ UNCHANGED <<remoteVars, inputVars, peers, proxyVars, handlerVars, runs, op, ret, prev,
                   existingDomainMap,
                   processedDomains, idx>>

\* helpers.go:271-273
AfterDelete ==
    /\ op = "manageServiceDomains"
    /\ pc = "delete"
    /\ tpc = "ret"
    /\ LET e == deleteServiceDomain(tret) IN
        /\ calls' = Settle(calls, e)
        /\ IF abortsOn(e)
           THEN /\ Finish(Wrap("failed to delete domain", e))
           ELSE /\ pc' = "unused"
                /\ TransportIdle
                /\ UNCHANGED <<op, ret, prev>>
    /\ UNCHANGED <<remoteVars, inputVars, peers, proxyVars, handlerVars, runs,
                   existingDomainMap, processedDomains,
                   idx, unvisited>>

\* helpers.go:275: the range loop is over, manageServiceDomains returns nil.
ManageDone ==
    /\ op = "manageServiceDomains"
    /\ pc = "unused"
    /\ unvisited = {}
    /\ Finish(Nil)
    /\ UNCHANGED <<remoteVars, inputVars, peers, proxyVars, handlerVars, runs, reconVars>>

----------------------------------------------------------------------------
(* Two calls of manageServiceDomains for the same service, made concurrently by *)
(* the host. Each has its own locals; a step is one statement of one call up to *)
(* and including the remote call it makes.                                      *)

Peers == {1, 2}

\* The locals of a call that has not been made
NoPeer ==
    [pc |-> "none", desired |-> <<>>, existingDomainMap |-> EmptyMap,
     processedDomains |-> {}, idx |-> 1, unvisited |-> {}, ret |-> Nil]

\* What makeRequestWithRetry hands back for request r, and the remote state it
\* leaves: the first response with a status below 500, or the error after the
\* last attempt, the request having taken effect or not. The attempts before
\* the one that decides are taken to have left the remote as it was.
CallReturns(r) ==
    {[t |-> [resp |-> a.resp, err |-> Nil], after |-> a.after] :
        a \in {b \in Answers(r) : shouldReturn(makeRequest(b).resp, makeRequest(b).err)}} \cup
    {[t |-> [resp |-> NilResp, err |-> exhaustedError(nextLastErr(Nil, makeRequest(a).err))],
      after |-> a.after] :
        a \in {b \in Answers(r) : ~shouldReturn(makeRequest(b).resp, makeRequest(b).err)}}

DesiredDomain(name, description, validationMode) ==
    [name |-> name, description |-> description, validation_mode |-> validationMode]

\* The desired lists of the two calls: no name twice
RaceLists ==
    {<<>>,
     <<DesiredDomain(aCom, "d", "DNS")>>,
     <<DesiredDomain(oldNet, "", "NONE")>>,
     <<DesiredDomain(aCom, "", "NONE"), DesiredDomain(oldNet, "d", "NONE")>>}

\* The frame of a step of one of the two calls
PeerFrame ==
    UNCHANGED <<svcDescription, svcStatus, options, services, inputVars, runs,
                calleeVars, handlerVars, transportVars>>

\* helpers.go:154: the host calls manageServiceDomains with a desired list
PeerStart(p) ==
    /\ peers[p].pc = "none"
    /\ \E list \in RaceLists :
        peers' = [peers EXCEPT ![p] = [NoPeer EXCEPT !.pc = "fetch", !.desired = list]]
    /\ UNCHANGED <<remote, nextId>>
    /\ PeerFrame

\* helpers.go:155-164
PeerFetch(p) ==
    /\ peers[p].pc = "fetch"
    /\ \E o \in CallReturns(Request("fetchDomains", "GET", 0, <<>>, "", "")) :
        LET f == fetchExistingDomains(o.t) IN
        peers' = [peers EXCEPT ![p] =
            IF f.err # Nil
            THEN [@ EXCEPT !.pc = "done",
                           !.ret = Wrap("failed to fetch existing domains", f.err)]
            ELSE [@ EXCEPT !.pc = "desired",
                           !.existingDomainMap = mapExistingDomains(f.domains)]]
    /\ UNCHANGED <<remote, nextId>>
    /\ PeerFrame

\* helpers.go:167-189, one iteration of the loop
PeerDesired(p) ==
    /\ peers[p].pc = "desired"
    /\ peers[p].idx <= Len(peers[p].desired)
    /\ LET me == peers[p]
           d == nextDesired(me.desired, me.idx)
           b == branchFor(me.existingDomainMap, d)
           r == IF b = "update"
                THEN Request("updateDomain", "PUT", me.existingDomainMap[d.name].id,
                             d.name, d.description, d.validation_mode)
                ELSE Request("createDomain", "POST", 0,
                             d.name, d.description, d.validation_mode)
           next == [me EXCEPT !.processedDomains = @ \cup {d.name}, !.idx = @ + 1]
       IN
       IF b = "skip"
       THEN /\ peers' = [peers EXCEPT ![p] = next]
            /\ UNCHANGED <<remote, nextId>>
       ELSE \E o \in CallReturns(r) :
            LET e == IF b = "update" THEN updateServiceDomain(o.t)
                     ELSE createServiceDomain(o.t) IN
            /\ remote' = o.after.remote
            /\ nextId' = o.after.nextId
            /\ peers' = [peers EXCEPT ![p] =
                    IF abortsOn(e)
                    THEN [me EXCEPT !.pc = "done",
                                    !.ret = Wrap(IF b = "update"
                                                 THEN "failed to update domain"
                                                 ELSE "failed to create domain", e)]
                    ELSE next]
    /\ PeerFrame

\* helpers.go:192 and 263-268
PeerEnterDelete(p) ==
    /\ peers[p].pc = "desired"
    /\ peers[p].idx > Len(peers[p].desired)
    /\ peers' = [peers EXCEPT ![p] =
            [@ EXCEPT !.pc = "unused",
                      !.unvisited = {n \in DOMAIN peers[p].existingDomainMap :
                                        ~skips(n \in peers[p].processedDomains, n)}]]
    /\ UNCHANGED <<remote, nextId>>
    /\ PeerFrame

\* helpers.go:264-273
PeerDelete(p) ==
    /\ peers[p].pc = "unused"
    /\ \E name \in peers[p].unvisited :
        \E o \in CallReturns(Request("deleteDomain", "DELETE",
                                     peers[p].existingDomainMap[name].id, name, "", "")) :
            LET e == deleteServiceDomain(o.t) IN
            /\ remote' = o.after.remote
            /\ nextId' = o.after.nextId
            /\ peers' = [peers EXCEPT ![p] =
                    IF abortsOn(e)
                    THEN [@ EXCEPT !.pc = "done",
                                   !.ret = Wrap("failed to delete domain", e)]
                    ELSE [@ EXCEPT !.unvisited = @ \ {name}]]
    /\ PeerFrame

\* helpers.go:275
PeerDone(p) ==
    /\ peers[p].pc = "unused"
    /\ peers[p].unvisited = {}
    /\ peers' = [peers EXCEPT ![p] = [@ EXCEPT !.pc = "done", !.ret = Nil]]
    /\ UNCHANGED <<remote, nextId>>
    /\ PeerFrame

----------------------------------------------------------------------------
(* updateServiceDetails *)

\* The caller side of updateServiceDetails' entry: the request is built and handed
\* to client.HTTP.Do, outside the retry loop.
EnterUpdateDetails ==
    /\ op' = "updateServiceDetails"
    /\ pc' = "send"
    /\ prev' = [op |-> op, ret |-> ret]
    /\ req' = WithBody(Request("updateService", "PUT", 0, <<>>, newDescription, ""),
                        marshalService(newDescription))
    /\ tpc' = "raw"
    /\ retried' = FALSE
    /\ UNCHANGED <<attempt, lastErr, resp, err, delay, requests, sleeps, lastCause, tret>>

StartUpdateDetails ==
    /\ pc \in {"idle", "done"}
    /\ runs < MaxRuns
    /\ runs' = runs + 1
    /\ EnterUpdateDetails
    /\ UNCHANGED <<remoteVars, inputVars, peers, proxyVars, handlerVars, reconVars, ret>>

\* resource_service.go:624, client.HTTP.Do: one exchange, no retry loop around it.
RawSend ==
    /\ tpc = "raw"
    /\ ~retried
    /\ \E answer \in Answers(req) :
        /\ remote' = answer.after.remote
        /\ nextId' = answer.after.nextId
        /\ svcDescription' = answer.after.svcDescription
        /\ svcStatus' = answer.after.svcStatus
        /\ options' = answer.after.options
        /\ services' = answer.after.services
        /\ resp' = answer.resp
        /\ err' = IF answer.neterr # "" THEN <<answer.neterr>> ELSE Nil
        /\ tret' = [resp |-> resp', err |-> err']
        /\ lastCause' = IF answer.neterr # "" THEN <<answer.neterr>>
                        ELSE IF answer.resp.status >= 500
                        THEN <<StatusText(answer.resp.status)>> ELSE Nil
    /\ requests' = requests + 1
    /\ tpc' = "ret"
    /\ UNCHANGED <<inputVars, peers, proxyVars, handlerVars, runs, op, pc, reconVars, ret,
                   prev, req, attempt, lastErr, delay, sleeps, retried>>

\* resource_service.go:625-636
updateServiceDetails(t) ==
    IF t.err # Nil
    THEN Wrap("failed to send request", t.err)
    ELSE IF t.resp.status # 200
    THEN <<"API error", StatusText(t.resp.status)>>
    ELSE Nil

AfterUpdateDetails ==
    /\ op = "updateServiceDetails"
    /\ pc = "send"
    /\ tpc = "ret"
    /\ Finish(updateServiceDetails(tret))
    /\ UNCHANGED <<remoteVars, inputVars, peers, proxyVars, handlerVars, runs, reconVars>>

----------------------------------------------------------------------------
(* deactivateService *)

hardDeleteRequest(id) == Request("deleteService", "DELETE", id, <<>>, "", "")

\* helpers.go:140-142
deactivateRequest(id) == Request("deactivateService", "PUT", id, <<>>, "", "")

\* The caller side of deactivateService's entry.
EnterDeactivate ==
    /\ op' = "deactivateService"
    /\ pc' = "deactivate"
    /\ prev' = [op |-> op, ret |-> ret]
    /\ Call(deactivateRequest(resourceId))

StartDeactivate ==
    /\ pc \in {"idle", "done"}
    /\ runs < MaxRuns
    /\ runs' = runs + 1
    /\ EnterDeactivate
    /\ UNCHANGED <<remoteVars, inputVars, peers, proxyVars, handlerVars, reconVars, ret>>

\* helpers.go:142-150
deactivateService(t) ==
    IF t.err # Nil
    THEN Wrap("failed to deactivate service after retries", t.err)
    ELSE IF handleResponse(t.resp) # Nil
    THEN Wrap("failed to deactivate service", handleResponse(t.resp))
    ELSE Nil

AfterDeactivate ==
    /\ op = "deactivateService"
    /\ pc = "deactivate"
    /\ tpc = "ret"
    /\ Finish(deactivateService(tret))
    /\ UNCHANGED <<remoteVars, inputVars, peers, proxyVars, handlerVars, runs, reconVars>>

----------------------------------------------------------------------------
(* getServiceOptions and configureReverseProxy *)

NullTTL == [k \in {} |-> 0]
NoFields == [k \in {} |-> ""]

normalizeErrorTTLZeroAbsent(e) ==
    IF DOMAIN e # {} /\ ("value" \notin DOMAIN e \/ e.value = 0) THEN NullTTL ELSE e

\* resource_service.go:806-808: an error TTL without a value counts as absent
normalizeErrorTTL(e) == IF DOMAIN e # {} /\ "value" \notin DOMAIN e THEN NullTTL ELSE e

NoOptions(e) ==
    [reverseProxy |-> ZeroReverseProxy, errorTTL |-> NullTTL,
     hostnamePassThrough |-> FALSE, err |-> e]

\* resource_service.go:790-810: the decoded options, or an error
getServiceOptions(t) ==
    IF t.err # Nil
    THEN NoOptions(Wrap("failed to fetch service options", t.err))
    ELSE IF t.resp.status # 200
    THEN NoOptions(<<"unexpected status code", StatusText(t.resp.status)>>)
    ELSE IF ~t.resp.decodable
    THEN NoOptions(<<"failed to decode response">>)
    ELSE LET o == CHOOSE o \in t.resp.data : TRUE IN
         [reverseProxy |-> o.reverseProxy, errorTTL |-> normalizeErrorTTL(o.error_ttl),
          hostnamePassThrough |-> o.edgetoorigin, err |-> Nil]

autoEnableNever(rp) == rp

\* resource_service.go:706-708
autoEnable(rp) == IF rp.hostname # "" THEN [rp EXCEPT !.enabled = TRUE] ELSE rp

alreadyDisabledWhenEqual(current, rp) == current = rp

\* resource_service.go:710
alreadyDisabled(current, rp) == ~current.enabled /\ ~rp.enabled

disablePayloadReset == [reverseProxy |-> ZeroReverseProxy]

\* resource_service.go:716-720
disablePayload == [reverseProxy |-> [enabled |-> FALSE]]

prependFieldsAnyMode(rp) == IF rp.prepend # "" THEN [prepend |-> rp.prepend] ELSE NoFields

\* resource_service.go:752-754
prependFields(rp) ==
    IF rp.mode = "WEB" /\ rp.prepend # "" THEN [prepend |-> rp.prepend] ELSE NoFields

credentialsMissingButSecret(rp) == rp.accessKey = "" \/ rp.region = ""

credentialsAllMissing(rp) == rp.accessKey = "" /\ rp.secretKey = "" /\ rp.region = ""

\* resource_service.go:757
credentialsMissing(rp) == rp.accessKey = "" \/ rp.secretKey = "" \/ rp.region = ""

\* resource_service.go:756-767, past the check of the credentials
storageFields(rp) ==
    IF rp.mode = "OBJECT_STORAGE"
    THEN (IF rp.bucket # "" THEN [bucket |-> rp.bucket] ELSE NoFields) @@
         [accessKey |-> rp.accessKey, secretKey |-> rp.secretKey, region |-> rp.region]
    ELSE NoFields

\* resource_service.go:740-767
enablePayload(rp) ==
    [reverseProxy |->
        storageFields(rp) @@ prependFields(rp) @@
        [enabled |-> TRUE, hostname |-> rp.hostname, mode |-> rp.mode, ttl |-> rp.ttl,
         cacheByQueryParam |-> rp.cacheByQueryParam, originScheme |-> rp.originScheme,
         useRobotsTxt |-> rp.useRobotsTxt]]

credentialsError == <<"accessKey, secretKey, and region are required for OBJECT_STORAGE mode">>

proxyBranchMinimal(current, rp) ==
    IF alreadyDisabled(current, rp) \/ current = rp THEN "none"
    ELSE IF ~rp.enabled THEN "disable"
    ELSE IF rp.mode = "OBJECT_STORAGE" /\ credentialsMissing(rp) THEN "invalid"
    ELSE "configure"

\* What configureReverseProxy does once it holds the current state:
\* resource_service.go:705-767.
proxyBranch(current, rp) ==
    IF alreadyDisabled(current, rp) THEN "none"
    ELSE IF ~rp.enabled THEN "disable"
    ELSE IF rp.mode = "OBJECT_STORAGE" /\ credentialsMissing(rp) THEN "invalid"
    ELSE "configure"

\* The caller side of configureReverseProxy's entry: the fetch of the options.
EnterConfigureProxy ==
    /\ op' = "configureReverseProxy"
    /\ pc' = "options"
    /\ prev' = [op |-> op, ret |-> ret]
    /\ currentState' = ZeroReverseProxy
    /\ writes' = <<>>
    /\ Call(Request("getOptions", "GET", 0, <<>>, "", ""))

StartConfigureProxy ==
    /\ pc \in {"idle", "done"}
    /\ runs < MaxProxyRuns
    /\ runs' = runs + 1
    /\ EnterConfigureProxy
    /\ UNCHANGED <<remoteVars, inputVars, peers, handlerVars, reconVars, ret>>

PutOptions(position, payload) ==
    /\ pc' = position
    /\ writes' = Append(writes, payload)
    /\ Call(WithBody(Request("putOptions", "PUT", 0, <<>>, "", ""), payload))
    /\ UNCHANGED <<op, ret, prev>>

AfterGetOptions ==
    /\ op = "configureReverseProxy"
    /\ pc = "options"
    /\ tpc = "ret"
    /\ LET g == getServiceOptions(tret)
           rp == autoEnable(proxy)
           branch == proxyBranch(g.reverseProxy, rp)
       IN
       IF g.err # Nil
       THEN /\ Finish(Wrap("failed to fetch current reverse proxy state", g.err))
            /\ UNCHANGED <<currentState, writes>>
       ELSE /\ currentState' = g.reverseProxy
            /\ CASE branch = "none" -> Finish(Nil) /\ UNCHANGED writes
                 [] branch = "invalid" -> Finish(credentialsError) /\ UNCHANGED writes
                 [] branch = "disable" -> PutOptions("disable", disablePayload)
                 [] OTHER -> PutOptions("configure", enablePayload(rp))
    /\ UNCHANGED <<remoteVars, inputVars, peers, handlerVars, runs, reconVars>>

\* resource_service.go:724-737 (disable), 770-784 (configure)
writeResult(position, t) ==
    IF t.err # Nil
    THEN Wrap(IF position = "disable" THEN "failed to disable reverse proxy"
              ELSE "failed to configure reverse proxy", t.err)
    ELSE IF t.resp.status # 200
    THEN <<"unexpected status code", StatusText(t.resp.status)>>
    ELSE Nil

AfterProxyWrite ==
    /\ op = "configureReverseProxy"
    /\ pc \in {"disable", "configure"}
    /\ tpc = "ret"
    /\ Finish(writeResult(pc, tret))
    /\ UNCHANGED <<remoteVars, inputVars, peers, handlerVars, runs, reconVars, currentState,
                   writes>>

----------------------------------------------------------------------------
(* The resource handlers: create, read, update, delete *)

\* strings.ToLower, over the letters the names are made of
ToLowerNot(str) == str

ToLower(str) ==
    [i \in 1..Len(str) |-> CASE str[i] = "S" -> "s"
                             [] str[i] = "V" -> "v"
                             [] str[i] = "C" -> "c"
                             [] OTHER -> str[i]]

HCall(kind, id) == [kind |-> kind, id |-> id]

\* resource_service.go:669-676: the scan of the listing for an exact match
firstMatchNone(list, name) == NoService

firstMatch(list, name) ==
    LET matches == {x \in list : x.uniqueName = name} IN
    IF matches = {} THEN NoService ELSE CHOOSE x \in matches : TRUE

\* resource_service.go:650-677
findServiceByUniqueName(t, name) ==
    IF t.err # Nil
    THEN [service |-> NoService,
          err |-> Wrap("failed to fetch services after retries", t.err)]
    ELSE IF t.resp.status # 200
    THEN [service |-> NoService,
          err |-> <<"failed to fetch services", StatusText(t.resp.status)>>]
    ELSE IF ~t.resp.decodable
    THEN [service |-> NoService, err |-> <<"failed to decode services response">>]
    ELSE [service |-> firstMatch(t.resp.data, name), err |-> Nil]

\* resource_service.go:679-694
reactivateService(t) ==
    IF t.err # Nil
    THEN Wrap("failed to send activation request after retries", t.err)
    ELSE IF t.resp.status # 200
    THEN <<"failed to activate service", StatusText(t.resp.status)>>
    ELSE Nil

reactivatesAny(status) == TRUE

reactivatesNever(status) == FALSE

reactivatesUnlessActive(status) == status # "ACTIVE"

\* resource_service.go:260
reactivates(status) == status = "DEACTIVATED"

conflictError == <<"Service with unique_name already exists.">>

\* resource_service.go:278-292: the created record, or an error
createdService(t) ==
    IF t.err # Nil
    THEN [service |-> NoService, err |-> t.err]
    ELSE IF handleResponse(t.resp) # Nil
    THEN [service |-> NoService, err |-> handleResponse(t.resp)]
    ELSE IF ~t.resp.decodable
    THEN [service |-> NoService, err |-> <<"failed to decode response">>]
    ELSE [service |-> CHOOSE x \in t.resp.data : TRUE, err |-> Nil]

fetchServiceDetailsStrict(t) ==
    IF t.err # Nil
    THEN [service |-> NoService, err |-> t.err]
    ELSE IF t.resp.status # 200
    THEN [service |-> NoService,
          err |-> <<"failed to read service", StatusText(t.resp.status)>>]
    ELSE IF ~t.resp.decodable
    THEN [service |-> NoService, err |-> <<"failed to decode response">>]
    ELSE [service |-> CHOOSE x \in t.resp.data : TRUE, err |-> Nil]

\* resource_service.go:435-455: the record, nothing (not found), or an error
fetchServiceDetails(t) ==
    IF t.err # Nil
    THEN [service |-> NoService, err |-> t.err]
    ELSE IF t.resp.status = 404
    THEN [service |-> NoService, err |-> Nil]
    ELSE IF t.resp.status # 200
    THEN [service |-> NoService,
          err |-> <<"failed to read service", StatusText(t.resp.status)>>]
    ELSE IF ~t.resp.decodable
    THEN [service |-> NoService, err |-> <<"failed to decode response">>]
    ELSE [service |-> CHOOSE x \in t.resp.data : TRUE, err |-> Nil]

\* d.GetOk("reverse_proxy"): the block is present
proxyProvided == proxy # ZeroReverseProxy

\* d.GetOk("error_ttl"): the block is present
errorTTLProvided == DOMAIN errorTtl # {}

HandlerIdle == hpc \in {"idle", "done"}

HandlerReturns(d) ==
    /\ diags' = d
    /\ hpc' = "done"

\* A handler step that makes no call
Internal == UNCHANGED <<calleeVars, transportVars>>

\* When a handler starts, and when a callee has returned to it, the callee's
\* locals are gone: they are those of the state before any operation.
FreshCallees ==
    /\ op' = "none"
    /\ pc' = "idle"
    /\ ret' = Nil
    /\ prev' = [op |-> "none", ret |-> Nil]
    /\ existingDomainMap' = EmptyMap
    /\ processedDomains' = {}
    /\ idx' = 1
    /\ unvisited' = {}
    /\ calls' = NoCalls
    /\ currentState' = ZeroReverseProxy
    /\ writes' = <<>>

\* A handler step that calls makeRequestWithRetry itself
Direct(kind, r) ==
    /\ hcalls' = Append(hcalls, HCall(kind, r.id))
    /\ Call(r)
    /\ UNCHANGED calleeVars

\* A handler step that handles the return of its own call and makes no other
Returned ==
    /\ TransportIdle
    /\ UNCHANGED calleeVars

\* A handler step that takes the result of a callee
CalleeReturned ==
    /\ FreshCallees
    /\ UNCHANGED transportVars

\* Two calls of resourceCacheflyServiceCreate for the same unique_name, made
\* concurrently by the host, each followed up to d.SetId; the steps behind it
\* work on the options and the domains and leave the listing alone. A step is
\* one remote call of one of the two and the statements that take its result.

\* The locals of a call of create that has started
Creator(at, listing, match, posted, id, e) ==
    [pc |-> at, listing |-> listing, found |-> match, posted |-> posted,
     id |-> id, ret |-> e]

CreatorFrame ==
    UNCHANGED <<remote, nextId, svcDescription, svcStatus, options, inputVars, runs,
                calleeVars, handlerVars, transportVars>>

\* resource_service.go:246-251
CreatorStart(p) ==
    /\ peers[p].pc = "none"
    /\ peers' = [peers EXCEPT ![p] = Creator("list", {}, NoService, FALSE, 0, Nil)]
    /\ UNCHANGED services
    /\ CreatorFrame

\* resource_service.go:254-270 and 650-677
CreatorList(p) ==
    /\ peers[p].pc = "list"
    /\ \E o \in CallReturns(Request("listServices", "GET", 0, <<>>, "", "")) :
        LET f == findServiceByUniqueName(o.t, ToLower(uniqueName))
            me == [peers[p] EXCEPT !.listing = o.t.resp.data, !.found = f.service] IN
        peers' = [peers EXCEPT ![p] =
            IF f.err # Nil THEN [me EXCEPT !.pc = "done", !.ret = f.err]
            ELSE IF f.service # NoService
            THEN IF reactivates(f.service.status)
                 THEN [me EXCEPT !.pc = "activate"]
                 ELSE [me EXCEPT !.pc = "done", !.ret = conflictError]
            ELSE [me EXCEPT !.pc = "post"]]
    /\ UNCHANGED services
    /\ CreatorFrame

\* resource_service.go:262-265 and 679-694
CreatorActivate(p) ==
    /\ peers[p].pc = "activate"
    /\ \E o \in CallReturns(Request("activateService", "PUT", peers[p].found.id,
                                     <<>>, "", "")) :
        LET e == reactivateService(o.t) IN
        /\ services' = o.after.services
        /\ peers' = [peers EXCEPT ![p] =
                IF e # Nil
                THEN [@ EXCEPT !.pc = "done",
                               !.ret = Wrap("Failed to reactivate service", e)]
                ELSE [@ EXCEPT !.pc = "done", !.id = peers[p].found.id]]
    /\ CreatorFrame

\* resource_service.go:273-294
CreatorPost(p) ==
    /\ peers[p].pc = "post"
    /\ \E o \in CallReturns(Request("createService", "POST", 0,
                                     ToLower(uniqueName), "", "")) :
        LET c == createdService(o.t) IN
        /\ services' = o.after.services
        /\ peers' = [peers EXCEPT ![p] =
                IF c.err # Nil
                THEN [@ EXCEPT !.pc = "done", !.posted = TRUE, !.ret = c.err]
                ELSE [@ EXCEPT !.pc = "done", !.posted = TRUE, !.id = c.service.id]]
    /\ CreatorFrame

StartCreate ==
    /\ HandlerIdle
    /\ resourceId = 0
    /\ runs < MaxRuns
    /\ runs' = runs + 1
    /\ handler' = "create"
    /\ hpc' = "list"
    /\ diags' = Nil
    /\ found' = NoService
    /\ hcalls' = <<HCall("listServices", 0)>>
    /\ Call(Request("listServices", "GET", 0, <<>>, "", ""))
    /\ FreshCallees
    /\ UNCHANGED <<remoteVars, inputVars, peers, resourceId>>

\* resource_service.go:246: the host calls create once more for the name after a
\* create that returned an error behind d.SetId; the new call starts with a
\* ResourceData that holds no id.
StartCreateAgain ==
    /\ hpc = "done"
    /\ handler = "create"
    /\ diags # Nil
    /\ resourceId # 0
    /\ runs < MaxRuns
    /\ runs' = runs + 1
    /\ resourceId' = 0
    /\ handler' = "create"
    /\ hpc' = "list"
    /\ diags' = Nil
    /\ found' = NoService
    /\ hcalls' = <<HCall("listServices", 0)>>
    /\ Call(Request("listServices", "GET", 0, <<>>, "", ""))
    /\ FreshCallees
    /\ UNCHANGED <<remoteVars, inputVars, peers>>

\* resource_service.go:254-278
AfterList ==
    /\ handler = "create"
    /\ hpc = "list"
    /\ tpc = "ret"
    /\ LET f == findServiceByUniqueName(tret, ToLower(uniqueName)) IN
       /\ found' = f.service
       /\ IF f.err # Nil
          THEN HandlerReturns(f.err) /\ Returned /\ UNCHANGED hcalls
          ELSE IF f.service # NoService
          THEN IF reactivates(f.service.status)
               THEN /\ hpc' = "activate"
                    /\ Direct("activateService",
                              Request("activateService", "PUT", f.service.id, <<>>, "", ""))
                    /\ UNCHANGED diags
               ELSE HandlerReturns(conflictError) /\ Returned /\ UNCHANGED hcalls
          ELSE /\ hpc' = "post"
               /\ Direct("createService",
                         Request("createService", "POST", 0, ToLower(uniqueName), "", ""))
               /\ UNCHANGED diags
    /\ UNCHANGED <<remoteVars, inputVars, peers, runs, handler, resourceId>>

\* resource_service.go:262-266
AfterActivate ==
    /\ hpc = "activate"
    /\ tpc = "ret"
    /\ LET e == reactivateService(tret) IN
       IF e # Nil
       THEN HandlerReturns(Wrap("Failed to reactivate service", e)) /\ UNCHANGED resourceId
       ELSE hpc' = "toRead" /\ resourceId' = found.id /\ UNCHANGED diags
    /\ Returned
    /\ UNCHANGED <<remoteVars, inputVars, peers, runs, handler, found, hcalls>>

\* resource_service.go:279-294
AfterPost ==
    /\ hpc = "post"
    /\ tpc = "ret"
    /\ LET c == createdService(tret) IN
       IF c.err # Nil
       THEN HandlerReturns(c.err) /\ UNCHANGED resourceId
       ELSE hpc' = "toProxy" /\ resourceId' = c.service.id /\ UNCHANGED diags
    /\ Returned
    /\ UNCHANGED <<remoteVars, inputVars, peers, runs, handler, found, hcalls>>

\* resource_service.go:326, 333, 512, 519
ProxyStep ==
    /\ hpc = "toProxy"
    /\ hpc' = "proxy"
    /\ hcalls' = Append(hcalls, HCall("configureReverseProxy", resourceId))
    /\ EnterConfigureProxy
    /\ UNCHANGED <<remoteVars, inputVars, peers, runs, ret, reconVars, handler, resourceId,
                   diags, found>>

\* resource_service.go:327-329, 334-336, 513-515, 520-522
AfterProxy ==
    /\ hpc = "proxy"
    /\ op = "configureReverseProxy"
    /\ pc = "done"
    /\ IF ret # Nil
       THEN HandlerReturns(Wrap(IF ~proxyProvided THEN "failed to disable reverse proxy"
                                ELSE IF handler = "create"
                                THEN "failed to configure reverse proxy"
                                ELSE "failed to update reverse proxy", ret))
       ELSE hpc' = "toErrorTTL" /\ UNCHANGED diags
    /\ CalleeReturned
    /\ UNCHANGED <<remoteVars, inputVars, peers, runs, handler, resourceId, found, hcalls>>

errorTTLPayloadWhole ==
    [error_ttl |-> IF errorTTLProvided
                   THEN [enabled |-> errorTtl.enabled, value |-> errorTtl.value]
                   ELSE [enabled |-> FALSE],
     edgetoorigin |-> FALSE]

\* resource_service.go:341-351, 529-540, 552-556
errorTTLPayload ==
    IF errorTTLProvided
    THEN [error_ttl |-> [enabled |-> errorTtl.enabled, value |-> errorTtl.value]]
    ELSE [error_ttl |-> [enabled |-> FALSE]]

\* resource_service.go:340-354, 527-558
ErrorTTLStep ==
    /\ hpc = "toErrorTTL"
    /\ IF (IF handler = "create" THEN errorTTLProvided ELSE "error_ttl" \in changed)
       THEN /\ hpc' = "errorTTL"
            /\ Direct("putErrorTTL",
                      WithBody(Request("putOptions", "PUT", resourceId, <<>>, "", ""),
                               errorTTLPayload))
       ELSE /\ hpc' = IF handler = "update" THEN "toPassThrough" ELSE "toDomains"
            /\ Internal
            /\ UNCHANGED hcalls
    /\ UNCHANGED <<remoteVars, inputVars, peers, runs, handler, resourceId, diags, found>>

\* resource_service.go:355-363, 541-549, 559-567
errorTTLResult(t) ==
    IF t.err # Nil
    THEN Wrap(IF handler = "create" THEN "failed to configure error_ttl"
              ELSE IF errorTTLProvided THEN "failed to update error_ttl"
              ELSE "failed to disable error_ttl", t.err)
    ELSE IF t.resp.status # 200
    THEN <<"API error on error_ttl", StatusText(t.resp.status)>>
    ELSE Nil

AfterErrorTTL ==
    /\ hpc = "errorTTL"
    /\ tpc = "ret"
    /\ IF errorTTLResult(tret) # Nil
       THEN HandlerReturns(errorTTLResult(tret))
       ELSE /\ hpc' = IF handler = "update" THEN "toPassThrough" ELSE "toDomains"
            /\ UNCHANGED diags
    /\ Returned
    /\ UNCHANGED <<remoteVars, inputVars, peers, runs, handler, resourceId, found, hcalls>>

\* resource_service.go:571-579
PassThroughStep ==
    /\ hpc = "toPassThrough"
    /\ IF "hostname_pass_through" \in changed
       THEN /\ hpc' = "passThrough"
            /\ Direct("putPassThrough",
                      WithBody(Request("putOptions", "PUT", resourceId, <<>>, "", ""),
                               [edgetoorigin |-> passThrough]))
       ELSE /\ hpc' = "toDomains"
            /\ Internal
            /\ UNCHANGED hcalls
    /\ UNCHANGED <<remoteVars, inputVars, peers, runs, handler, resourceId, diags, found>>

\* resource_service.go:579-588
passThroughResult(t) ==
    IF t.err # Nil
    THEN Wrap("failed to update hostname_pass_through", t.err)
    ELSE IF t.resp.status # 200
    THEN <<"API error on hostname_pass_through", StatusText(t.resp.status)>>
    ELSE Nil

AfterPassThrough ==
    /\ hpc = "passThrough"
    /\ tpc = "ret"
    /\ IF passThroughResult(tret) # Nil
       THEN HandlerReturns(passThroughResult(tret))
       ELSE hpc' = "toDomains" /\ UNCHANGED diags
    /\ Returned
    /\ UNCHANGED <<remoteVars, inputVars, peers, runs, handler, resourceId, found, hcalls>>

\* helpers.go:129-136, resource_service.go:366, 592-594
DomainsStep ==
    /\ hpc = "toDomains"
    /\ IF (IF handler = "create" THEN desired # <<>> ELSE "domains" \in changed)
       THEN /\ hpc' = "domains"
            /\ hcalls' = Append(hcalls, HCall("manageServiceDomains", resourceId))
            /\ EnterManage
            /\ UNCHANGED <<ret, proxyVars>>
       ELSE /\ hpc' = "toRead"
            /\ Internal
            /\ UNCHANGED hcalls
    /\ UNCHANGED <<remoteVars, inputVars, peers, runs, handler, resourceId, diags, found>>

\* resource_service.go:366-368, 595-597
AfterDomains ==
    /\ hpc = "domains"
    /\ op = "manageServiceDomains"
    /\ pc = "done"
    /\ IF ret = Nil
       THEN hpc' = "toRead" /\ UNCHANGED diags
       ELSE IF handler = "create"
       THEN HandlerReturns(ret)
       ELSE hpc' = "toRead" /\ diags' = diags \o Wrap("failed to update domains", ret)
    /\ CalleeReturned
    /\ UNCHANGED <<remoteVars, inputVars, peers, runs, handler, resourceId, found, hcalls>>

\* resource_service.go:373-376
ReadStep ==
    /\ hpc = "toRead"
    /\ hpc' = "readService"
    /\ Direct("getService", Request("getService", "GET", resourceId, <<>>, "", ""))
    /\ UNCHANGED <<remoteVars, inputVars, peers, runs, handler, resourceId, diags, found>>

\* resource_service.go:376-392
AfterReadService ==
    /\ hpc = "readService"
    /\ tpc = "ret"
    /\ LET f == fetchServiceDetails(tret) IN
       IF f.err # Nil
       THEN /\ HandlerReturns(diags \o f.err)
            /\ Returned
            /\ UNCHANGED <<resourceId, hcalls>>
       ELSE IF f.service = NoService
       THEN /\ HandlerReturns(diags)
            /\ resourceId' = 0
            /\ Returned
            /\ UNCHANGED hcalls
       ELSE /\ hpc' = "readOptions"
            /\ Direct("getOptions", Request("getOptions", "GET", resourceId, <<>>, "", ""))
            /\ UNCHANGED <<resourceId, diags>>
    /\ UNCHANGED <<remoteVars, inputVars, peers, runs, handler, found>>

\* resource_service.go:392-432
AfterReadOptions ==
    /\ hpc = "readOptions"
    /\ tpc = "ret"
    /\ LET g == getServiceOptions(tret) IN
       IF g.err # Nil
       THEN HandlerReturns(diags \o Wrap("failed to fetch service options", g.err))
       ELSE HandlerReturns(diags)
    /\ Returned
    /\ UNCHANGED <<remoteVars, inputVars, peers, runs, handler, resourceId, found, hcalls>>

\* resource_service.go:373-376: Read called by the host, to refresh the state
StartRead ==
    /\ HandlerIdle
    /\ resourceId # 0
    /\ runs < MaxRuns
    /\ runs' = runs + 1
    /\ handler' = "read"
    /\ hpc' = "toRead"
    /\ diags' = Nil
    /\ found' = NoService
    /\ hcalls' = <<>>
    /\ FreshCallees
    /\ UNCHANGED <<remoteVars, inputVars, peers, resourceId, transportVars>>

StartUpdate ==
    /\ HandlerIdle
    /\ resourceId # 0
    /\ runs < MaxRuns
    /\ runs' = runs + 1
    /\ handler' = "update"
    /\ hpc' = "toDescription"
    /\ diags' = Nil
    /\ found' = NoService
    /\ hcalls' = <<>>
    /\ FreshCallees
    /\ UNCHANGED <<remoteVars, inputVars, peers, resourceId, transportVars>>

\* resource_service.go:463-468
DescriptionStep ==
    /\ hpc = "toDescription"
    /\ IF "description" \in changed
       THEN /\ hpc' = "description"
            /\ hcalls' = Append(hcalls, HCall("updateServiceDetails", resourceId))
            /\ EnterUpdateDetails
            /\ UNCHANGED <<ret, reconVars, proxyVars>>
       ELSE /\ hpc' = "toOptions"
            /\ Internal
            /\ UNCHANGED hcalls
    /\ UNCHANGED <<remoteVars, inputVars, peers, runs, handler, resourceId, diags, found>>

\* resource_service.go:469-471
AfterDescription ==
    /\ hpc = "description"
    /\ op = "updateServiceDetails"
    /\ pc = "done"
    /\ hpc' = "toOptions"
    /\ diags' = IF ret # Nil THEN Wrap("failed to update description", ret) ELSE diags
    /\ CalleeReturned
    /\ UNCHANGED <<remoteVars, inputVars, peers, runs, handler, resourceId, found, hcalls>>

\* resource_service.go:475
OptionsStep ==
    /\ hpc = "toOptions"
    /\ hpc' = "options"
    /\ Direct("getOptions", Request("getOptions", "GET", resourceId, <<>>, "", ""))
    /\ UNCHANGED <<remoteVars, inputVars, peers, runs, handler, resourceId, diags, found>>

\* resource_service.go:476-482, 516-518: the proxy is configured when the block has
\* changed and is present, or is gone while the remote proxy is enabled
AfterOptions ==
    /\ hpc = "options"
    /\ tpc = "ret"
    /\ LET g == getServiceOptions(tret) IN
       IF g.err # Nil
       THEN HandlerReturns(Wrap("failed to fetch service options", g.err))
       ELSE /\ hpc' = IF /\ "reverse_proxy" \in changed
                         /\ (proxyProvided \/ g.reverseProxy.enabled)
                      THEN "toProxy" ELSE "toErrorTTL"
            /\ UNCHANGED diags
    /\ Returned
    /\ UNCHANGED <<remoteVars, inputVars, peers, runs, handler, resourceId, found, hcalls>>

\* resource_service.go:640-644
StartDelete ==
    /\ HandlerIdle
    /\ resourceId # 0
    /\ runs < MaxRuns
    /\ runs' = runs + 1
    /\ handler' = "delete"
    /\ hpc' = "toDeactivate"
    /\ diags' = Nil
    /\ found' = NoService
    /\ hcalls' = <<>>
    /\ FreshCallees
    /\ UNCHANGED <<remoteVars, inputVars, peers, resourceId, transportVars>>

\* resource_service.go:643
DeactivateStep ==
    /\ hpc = "toDeactivate"
    /\ hpc' = "deactivate"
    /\ hcalls' = Append(hcalls, HCall("deactivateService", resourceId))
    /\ EnterDeactivate
    /\ UNCHANGED <<remoteVars, inputVars, peers, runs, ret, reconVars, proxyVars, handler,
                   resourceId, diags, found>>

\* resource_service.go:643-647; the resource leaves the state when delete succeeds
AfterDeleteService ==
    /\ hpc = "deactivate"
    /\ op = "deactivateService"
    /\ pc = "done"
    /\ HandlerReturns(ret)
    /\ resourceId' = IF ret = Nil THEN 0 ELSE resourceId
    /\ CalleeReturned
    /\ UNCHANGED <<remoteVars, inputVars, peers, runs, handler, found, hcalls>>

----------------------------------------------------------------------------
(* Initial states and the next-state relation *)

DesiredDomains ==
    {DesiredDomain(n, d, m) : n \in Names, d \in Descriptions, m \in ValidationModes}

DesiredLists == UNION {[1..k -> DesiredDomains] : k \in 0..MaxDesired}

\* Ids of the records the remote holds at the start
InitialId(name) == CASE name = aCom -> 1 [] name = oldNet -> 2 [] OTHER -> 3

FirstFreshId == Cardinality(Names) + 1

\* The fields the remote records hold at the start
InitialDescription == ""
InitialValidationMode == "NONE"

InitialRemotes ==
    {{DomainRecord(InitialId(n), n, InitialDescription, InitialValidationMode) : n \in S} :
        S \in SUBSET Names}

\* The service the resource manages, and the configurations of its reverse proxy
ManagedId == 1
ManagedName == <<"s", "v", "c">>

DefaultTTL == 2592000

DefaultPlain == [originScheme |-> "HTTPS", cacheByQueryParam |-> FALSE,
                 ttl |-> DefaultTTL, useRobotsTxt |-> FALSE]
OtherPlain == [originScheme |-> "HTTP", cacheByQueryParam |-> TRUE, ttl |-> 1,
               useRobotsTxt |-> TRUE]

ProxyConfigs ==
    {ZeroReverseProxy} \cup
    {ReverseProxy(e, h, m, pl, pp, ak, sk, rg, bk) :
        e \in BOOLEAN, h \in {"", "origin.example"}, m \in {"WEB", "OBJECT_STORAGE"},
        pl \in {DefaultPlain}, pp \in {"", "/p"}, ak \in {"", "ak"},
        sk \in {"", "sk"}, rg \in {"", "rg"}, bk \in {"", "bk"}}

\* The options the remote holds at the start: nothing ever set; the proxy on with
\* the fields of one of the configurations; or every field of the reverse proxy
\* set, with the proxy off, or on beside an error TTL and the pass-through.
InitialOptions ==
    {ServiceOptions(ZeroReverseProxy, NullTTL, FALSE),
     ServiceOptions(ReverseProxy(TRUE, "origin.example", "WEB", DefaultPlain,
                                 "/p", "", "", "", ""), NullTTL, FALSE)} \cup
    {ServiceOptions(ReverseProxy(e, "old.example", "OBJECT_STORAGE", OtherPlain,
                                 "/old", "oldak", "oldsk", "oldrg", "oldbk"),
                    IF e THEN [enabled |-> TRUE, value |-> 300] ELSE NullTTL, e) :
        e \in BOOLEAN}

\* A resource that exists: its service is active and its id is recorded.
InitManaged ==
    /\ services = {Service(ManagedId, ManagedName, "ACTIVE")}
    /\ uniqueName = ManagedName
    /\ resourceId = ManagedId

InitNoProxy ==
    /\ options = ServiceOptions(ZeroReverseProxy, NullTTL, FALSE)
    /\ proxy = ZeroReverseProxy

\* No error_ttl block, no pass-through, nothing changed
InitNoOptions ==
    /\ errorTtl = NullTTL
    /\ passThrough = FALSE
    /\ changed = {}

InitCommon ==
    /\ peers = [p \in Peers |-> NoPeer]
    /\ currentState = ZeroReverseProxy
    /\ writes = <<>>
    /\ handler = "none"
    /\ hpc = "idle"
    /\ diags = Nil
    /\ found = NoService
    /\ hcalls = <<>>
    /\ nextId = FirstFreshId
    /\ svcDescription = "old"
    /\ svcStatus = "ACTIVE"
    /\ newDescription = "new"
    /\ runs = 0
    /\ op = "none"
    /\ pc = "idle"
    /\ existingDomainMap = EmptyMap
    /\ processedDomains = {}
    /\ idx = 1
    /\ unvisited = {}
    /\ calls = NoCalls
    /\ ret = Nil
    /\ prev = [op |-> "none", ret |-> Nil]
    /\ req = NoRequest
    /\ tpc = "idle"
    /\ attempt = 0
    /\ lastErr = Nil
    /\ resp = NilResp
    /\ err = Nil
    /\ delay = 0
    /\ requests = 0
    /\ sleeps = 0
    /\ lastCause = Nil
    /\ retried = FALSE
    /\ tret = NoReturn

\* Reconciliations of one service, run in succession with the same desired list.
Init ==
    /\ remote \in InitialRemotes
    /\ desired \in DesiredLists
    /\ InitManaged
    /\ InitNoProxy
    /\ InitNoOptions
    /\ InitCommon

Next ==
    \/ StartManage
    \/ AfterFetch
    \/ DesiredStep
    \/ AfterUpdate
    \/ AfterCreate
    \/ EnterDelete
    \/ DeleteStep
    \/ AfterDelete
    \/ ManageDone
    \/ Attempt
    \/ Exhausted

Spec == Init /\ [][Next]_vars

\* Operations that are a single remote call, run in succession.
InitCalls ==
    /\ remote = {}
    /\ desired = <<>>
    /\ InitManaged
    /\ InitNoProxy
    /\ InitNoOptions
    /\ InitCommon

NextCalls ==
    \/ StartDeactivate
    \/ AfterDeactivate
    \/ StartUpdateDetails
    \/ RawSend
    \/ AfterUpdateDetails
    \/ Attempt
    \/ Exhausted

SpecCalls == InitCalls /\ [][NextCalls]_vars

\* configureReverseProxy, run in succession with the same configuration.
InitProxy ==
    /\ remote = {}
    /\ desired = <<>>
    /\ options \in InitialOptions
    /\ proxy \in ProxyConfigs
    /\ InitManaged
    /\ InitNoOptions
    /\ InitCommon

NextProxy ==
    \/ StartConfigureProxy
    \/ AfterGetOptions
    \/ AfterProxyWrite
    \/ Attempt
    \/ Exhausted

SpecProxy == InitProxy /\ [][NextProxy]_vars

\* The handlers of one resource, run in succession.
MixedCaseName == <<"S", "v", "c">>
OtherName == <<"o">>
OtherId == 2

\* The status of a record is a string the remote chooses: the two the handlers
\* know, a pending one and one in another spelling.
Statuses == {"ACTIVE", "DEACTIVATED", "PENDING", "deactivated"}

\* The account at the start: the name is free, or taken by a record of one of
\* the statuses; a record of another name may be there too.
InitialServices ==
    {others \cup mine :
        others \in {{}, {Service(OtherId, OtherName, "ACTIVE")}},
        mine \in {{}} \cup {{Service(ManagedId, ManagedName, st)} : st \in Statuses}}

\* The configurations of the resource: the ReverseProxy the handlers build from
\* the reverse_proxy block (resource_service.go:297-333), the error_ttl block and
\* the domains. The last one names OBJECT_STORAGE without a secret key.
Configurations ==
    {[proxy |-> ZeroReverseProxy, errorTtl |-> NullTTL, desired |-> <<>>],
     [proxy |-> ReverseProxy(TRUE, "origin.example", "WEB", DefaultPlain,
                             "", "", "", "", ""),
      errorTtl |-> [enabled |-> TRUE, value |-> 300],
      desired |-> <<DesiredDomain(aCom, "d", "DNS")>>],
     [proxy |-> ReverseProxy(TRUE, "origin.example", "OBJECT_STORAGE", DefaultPlain,
                             "", "ak", "", "rg", ""),
      errorTtl |-> NullTTL, desired |-> <<>>]}

\* The attributes an update finds changed
ChangeSets ==
    {{"description"}, {"domains"}, {"reverse_proxy"}, {"error_ttl", "hostname_pass_through"}}

\* The domains of the service: the default one, alone or beside two others
InitialDomains(S) ==
    {DomainRecord(InitialId(n), n, InitialDescription, InitialValidationMode) : n \in S}

InitLifecycle ==
    /\ services \in InitialServices
    /\ resourceId \in {0} \cup {x.id : x \in {y \in services :
                                    y.uniqueName = ManagedName /\ y.status = "ACTIVE"}}
    /\ uniqueName \in {ManagedName, MixedCaseName}
    /\ remote \in IF resourceId = 0 THEN {InitialDomains({keepNet})}
                  ELSE {InitialDomains({keepNet}), InitialDomains(Names)}
    /\ \E c \in Configurations :
        /\ proxy = c.proxy
        /\ errorTtl = c.errorTtl
        /\ desired = c.desired
    /\ options = ServiceOptions(ZeroReverseProxy, NullTTL, FALSE)
    /\ passThrough = TRUE
    /\ changed \in IF resourceId = 0 THEN {{"hostname_pass_through"}} ELSE ChangeSets
    /\ InitCommon

NextLifecycle ==
    \/ StartCreate
    \/ AfterList
    \/ AfterActivate
    \/ AfterPost
    \/ ProxyStep
    \/ AfterGetOptions
    \/ AfterProxyWrite
    \/ AfterProxy
    \/ ErrorTTLStep
    \/ AfterErrorTTL
    \/ PassThroughStep
    \/ AfterPassThrough
    \/ DomainsStep
    \/ AfterFetch
    \/ DesiredStep
    \/ AfterUpdate
    \/ AfterCreate
    \/ EnterDelete
    \/ DeleteStep
    \/ AfterDelete
    \/ ManageDone
    \/ AfterDomains
    \/ ReadStep
    \/ AfterReadService
    \/ AfterReadOptions
    \/ StartUpdate
    \/ DescriptionStep
    \/ RawSend
    \/ AfterUpdateDetails
    \/ AfterDescription
    \/ OptionsStep
    \/ AfterOptions
    \/ StartDelete
    \/ DeactivateStep
    \/ AfterDeactivate
    \/ AfterDeleteService
    \/ Attempt
    \/ Exhausted

SpecLifecycle == InitLifecycle /\ [][NextLifecycle]_vars

\* Two concurrent reconciliations of the domains of one service.
InitRace ==
    /\ remote \in InitialRemotes
    /\ desired = <<>>
    /\ InitManaged
    /\ InitNoProxy
    /\ InitNoOptions
    /\ InitCommon

NextRace ==
    \E p \in Peers :
        \/ PeerStart(p)
        \/ PeerFetch(p)
        \/ PeerDesired(p)
        \/ PeerEnterDelete(p)
        \/ PeerDelete(p)
        \/ PeerDone(p)

SpecRace == InitRace /\ [][NextRace]_vars

\* Create for a name that is free, and create once more after a failure. The new
\* service holds its default domain alone, so the reconciler has nothing to
\* update or delete.
InitCreate ==
    /\ services \in {{}, {Service(OtherId, OtherName, "ACTIVE")}}
    /\ resourceId = 0
    /\ uniqueName \in {ManagedName, MixedCaseName}
    /\ remote = InitialDomains({keepNet})
    /\ \E c \in Configurations :
        /\ proxy = c.proxy
        /\ errorTtl = c.errorTtl
        /\ desired = c.desired
    /\ options = ServiceOptions(ZeroReverseProxy, NullTTL, FALSE)
    /\ passThrough = FALSE
    /\ changed = {}
    /\ InitCommon

NextCreate ==
    \/ StartCreate
    \/ StartCreateAgain
    \/ AfterList
    \/ AfterPost
    \/ ProxyStep
    \/ AfterGetOptions
    \/ AfterProxyWrite
    \/ AfterProxy
    \/ ErrorTTLStep
    \/ AfterErrorTTL
    \/ DomainsStep
    \/ AfterFetch
    \/ DesiredStep
    \/ AfterCreate
    \/ EnterDelete
    \/ ManageDone
    \/ AfterDomains
    \/ ReadStep
    \/ AfterReadService
    \/ AfterReadOptions
    \/ Attempt
    \/ Exhausted

SpecCreate == InitCreate /\ [][NextCreate]_vars

\* Two concurrent creates for one unique_name.
InitCreators ==
    /\ services \in InitialServices
    /\ uniqueName \in {ManagedName, MixedCaseName}
    /\ resourceId = 0
    /\ remote = {}
    /\ desired = <<>>
    /\ InitNoProxy
    /\ InitNoOptions
    /\ InitCommon

NextCreators ==
    \E p \in Peers :
        \/ CreatorStart(p)
        \/ CreatorList(p)
        \/ CreatorActivate(p)
        \/ CreatorPost(p)

SpecCreators == InitCreators /\ [][NextCreators]_vars

\* Error TTL documents of the remote: the flag alone, on or off, and the flag
\* beside a value, zero or not.
ErrorTTLDocuments ==
    {[enabled |-> e] : e \in BOOLEAN} \cup
    {[enabled |-> e, value |-> v] : e \in BOOLEAN, v \in {0, 300}}

\* Read of a resource whose service is still at the remote, or is gone from it.
InitRead ==
    /\ services \in {{Service(OtherId, OtherName, "ACTIVE")},
                     {Service(ManagedId, ManagedName, "ACTIVE")},
                     {Service(ManagedId, ManagedName, "DEACTIVATED")}}
    /\ uniqueName = ManagedName
    /\ resourceId = ManagedId
    /\ remote = {}
    /\ desired = <<>>
    /\ options \in InitialOptions \cup
                   {ServiceOptions(ZeroReverseProxy, e, FALSE) : e \in ErrorTTLDocuments}
    /\ proxy = ZeroReverseProxy
    /\ InitNoOptions
    /\ InitCommon

NextRead ==
    \/ StartRead
    \/ ReadStep
    \/ AfterReadService
    \/ AfterReadOptions
    \/ Attempt
    \/ Exhausted

SpecRead == InitRead /\ [][NextRead]_vars

----------------------------------------------------------------------------
(* Properties of the domain reconciler, checked under Spec *)

Reconciling == op = "manageServiceDomains"
Finished == Reconciling /\ pc = "done"
Succeeded == Finished /\ ret = Nil

FetchedNames == DOMAIN existingDomainMap
DesiredNames == {desired[i].name : i \in 1..Len(desired)}
RemoteNames == {d.name : d \in remote}
CarriesDefaultSuffix(name) == HasSuffix(name, defaultSuffix)
DuplicateFree == \A i, j \in 1..Len(desired) : desired[i].name = desired[j].name => i = j

CallsOf(kind) == {k \in 1..Len(calls) : calls[k].kind = kind}

C3_DefaultProtection ==
    Reconciling =>
        /\ \A k \in CallsOf("delete") :
              /\ ~CarriesDefaultSuffix(calls[k].name)
              /\ \A n \in FetchedNames :
                    existingDomainMap[n].id = calls[k].id => ~CarriesDefaultSuffix(n)
        /\ \A n \in FetchedNames : CarriesDefaultSuffix(n) => n \in RemoteNames
        /\ (desired = <<>> /\ \A n \in FetchedNames : CarriesDefaultSuffix(n)) =>
              calls = NoCalls

\* An empty desired list has been reconciled against a default domain and another
\* one: the other one was deleted.
C3_Witness ==
    /\ Succeeded
    /\ desired = <<>>
    /\ keepNet \in FetchedNames
    /\ CallsOf("delete") # {}

Mutation(kind, id, name, description, validationMode) ==
    [kind |-> kind, id |-> id, name |-> name, description |-> description,
     validationMode |-> validationMode]

IssuedMutations ==
    {Mutation(calls[k].kind, calls[k].id, calls[k].name, calls[k].description,
              calls[k].validationMode) : k \in 1..Len(calls)}

ExpectedMutations ==
    {Mutation("create", 0, desired[i].name, desired[i].description,
              desired[i].validation_mode) :
        i \in {j \in 1..Len(desired) : desired[j].name \notin FetchedNames}}
    \cup
    {Mutation("update", existingDomainMap[desired[i].name].id, desired[i].name,
              desired[i].description, desired[i].validation_mode) :
        i \in {j \in 1..Len(desired) :
                  /\ desired[j].name \in FetchedNames
                  /\ \/ existingDomainMap[desired[j].name].description
                            # desired[j].description
                     \/ existingDomainMap[desired[j].name].validationMode
                            # desired[j].validation_mode}}
    \cup
    {Mutation("delete", existingDomainMap[n].id, n, "", "") :
        n \in {m \in FetchedNames \ DesiredNames : ~CarriesDefaultSuffix(m)}}

\* C4 (exact call set): for a desired list without duplicate names, a successful
\* reconciliation issues one create per desired name that was not fetched, one
\* update to the fetched record's id per name whose description or validation mode
\* differs, one delete per fetched non-default name that is not desired, and
\* nothing else.
C4_ExactCalls ==
    (Succeeded /\ DuplicateFree) =>
        /\ IssuedMutations = ExpectedMutations
        /\ Len(calls) = Cardinality(ExpectedMutations)

\* The scenario of the specification: a.com wanted with DNS validation, a.com and
\* another domain fetched; one update and one delete were issued.
C4_Witness ==
    /\ Succeeded
    /\ desired = <<DesiredDomain(aCom, "", "DNS")>>
    /\ {aCom, oldNet} \subseteq FetchedNames
    /\ Len(calls) = 2

FailureMessage(kind) ==
    CASE kind = "create" -> "failed to create domain"
      [] kind = "update" -> "failed to update domain"
      [] OTHER -> "failed to delete domain"

\* A later call that takes back what an earlier call of the same run did.
Undoes(later, earlier) ==
    \/ earlier.kind = "create" /\ later.kind = "delete" /\ later.name = earlier.name
    \/ earlier.kind = "delete" /\ later.kind = "create" /\ later.name = earlier.name
    \/ /\ earlier.kind = "update" /\ later.kind = "update" /\ later.id = earlier.id
       /\ later.description = existingDomainMap[earlier.name].description
       /\ later.validationMode = existingDomainMap[earlier.name].validationMode
       /\ \/ later.description # earlier.description
          \/ later.validationMode # earlier.validationMode

\* C5 (abort without rollback): a failed create, update or delete call is the last
\* call of its run, the run has returned that call's error, no call takes back an
\* earlier one, and what the earlier calls created or deleted stays so.
C5_AbortNoRollback ==
    Reconciling =>
        /\ \A k \in 1..Len(calls) :
              calls[k].outcome = "failed" =>
                  /\ k = Len(calls)
                  /\ pc = "done"
                  /\ ret = Wrap(FailureMessage(calls[k].kind), calls[k].err)
        /\ \A j, k \in 1..Len(calls) : j < k => ~Undoes(calls[k], calls[j])
        /\ (pc = "done" /\ ret # Nil) =>
              \A k \in 1..Len(calls) :
                  /\ (calls[k].kind = "create" /\ calls[k].outcome = "ok") =>
                        calls[k].name \in RemoteNames
                  /\ (calls[k].kind = "delete" /\ calls[k].outcome = "ok") =>
                        \A d \in remote : d.id # calls[k].id

\* A run whose first mutation call succeeded and whose second one failed.
C5_Witness ==
    /\ Finished
    /\ Len(calls) = 2
    /\ calls[1].outcome = "ok"
    /\ calls[2].outcome = "failed"
    /\ ret # Nil

\* The create requests of the call in progress: at most 5, at least 1 when the
\* call returns, and one more is sent only after an attempt that ended in a
\* transport failure or a status >= 500.
CreateCallRequests ==
    /\ []((Reconciling /\ pc = "create") =>
            /\ req.kind = "createDomain"
            /\ requests <= 5
            /\ tpc = "ret" => requests >= 1)
    /\ [][(Reconciling /\ pc = "create" /\ requests >= 1 /\ requests' = requests + 1) =>
            (err # Nil \/ resp.status >= 500)]_vars

\* The run has returned past its fetch.
FinishedPastFetch ==
    /\ Finished
    /\ ret = Nil \/ Head(ret) # "failed to fetch existing domains"

CreateCallsFor(name) == {k \in CallsOf("create") : calls[k].name = name}

\* The entries of the desired list the loop has taken up
Reached == {i \in 1..Len(desired) : i <= idx}

\* C35 as claimed: every desired name missing from the fetched set gets one create
\* call, of 1 to 5 requests, each further request following a failed attempt.
C35_CreatePerMissingName ==
    /\ CreateCallRequests
    /\ [](FinishedPastFetch =>
            \A n \in DesiredNames \ FetchedNames : Cardinality(CreateCallsFor(n)) = 1)

\* C35 (create requests, amended): every create call sends 1 to 5 requests, each
\* further request following an attempt that ended in a transport failure or a
\* status >= 500; a name missing from the fetched set gets one create call for
\* each of its entries that the loop has taken up, none for the entries behind a
\* failed call.
C35_CreatePerReachedEntry ==
    /\ CreateCallRequests
    /\ [](FinishedPastFetch =>
            \A n \in DesiredNames :
                Cardinality(CreateCallsFor(n)) =
                    Cardinality({i \in Reached : desired[i].name = n /\ n \notin FetchedNames}))

\* A create call returns the answer to its fifth request, after four failed ones.
C35_Witness ==
    /\ Reconciling
    /\ pc = "create"
    /\ tpc = "ret"
    /\ tret.err = Nil
    /\ requests = 5

\* C33 as claimed: a delete call answered with a 2xx status is a success, as a
\* create or update call is, and the reconciliation goes on to the next name.
C33_DeleteAny2xx ==
    [][(/\ Reconciling
        /\ pc \in {"update", "create", "delete"}
        /\ tpc = "ret"
        /\ tret.err = Nil
        /\ tret.resp.status \in 200..299)
            => (pc' # "done" /\ calls'[Len(calls')].outcome = "ok")]_vars

----------------------------------------------------------------------------
(* Properties of the transport, checked under SpecCalls *)

InRetryLoop == retried /\ tpc = "loop"
RetryReturned == retried /\ tpc = "ret"

\* C6 (no retry of client errors): an attempt of makeRequestWithRetry that yields a
\* response with a status below 500 makes the call return that response, and no
\* request is sent for a call that has returned.
C6_NoRetryBelow500 ==
    [][/\ (InRetryLoop /\ requests' = requests + 1 /\ err' = Nil /\ resp'.status < 500) =>
            /\ tpc' = "ret"
            /\ tret' = [resp |-> resp', err |-> Nil]
       /\ RetryReturned => requests' \in {requests, 0}]_vars

\* A call has returned a 404 response on its third attempt.
C6_Witness ==
    /\ RetryReturned
    /\ tret.err = Nil
    /\ tret.resp.status = 404
    /\ requests = 3

\* C7 (retry bound): makeRequestWithRetry sends at most 5 requests; a call that
\* returns a response has sent one request more than the attempts that failed
\* before, fewer than 5 of them, and the response has a status below 500; a call
\* that returns an error has sent exactly 5 requests, all of them failed.
C7_RetryBound ==
    retried =>
        /\ requests <= 5
        /\ (tpc = "ret" /\ tret.err = Nil) =>
              /\ requests = attempt + 1
              /\ attempt < 5
              /\ tret.resp.status \in 1..499
        /\ (tpc = "ret" /\ tret.err # Nil) =>
              /\ requests = 5
              /\ attempt = 5

\* Four failed attempts, then a response on the fifth.
C7_Witness ==
    /\ RetryReturned
    /\ tret.err = Nil
    /\ tret.resp.status = 200
    /\ requests = 5

\* C8 as claimed: the error returned after the attempts are exhausted carries the
\* cause of the last failed attempt, a transport failure or a status >= 500.
C8_LastCauseCarried ==
    (RetryReturned /\ tret.err # Nil) =>
        /\ lastCause # Nil
        /\ Tail(tret.err) = lastCause

\* C9 as claimed, for the attempts that a sleep precedes: the delay that precedes
\* attempt n (from 0) is 1 s * 2^n plus a jitter in [0, 100 ms).
C9_DelayBeforeAttempt ==
    (InRetryLoop /\ attempt < 5 /\ sleeps > 0) =>
        /\ delay >= 1000 * 2^attempt
        /\ delay < 1000 * 2^attempt + 100

\* C9 (backoff schedule, amended): nothing is slept before attempt 0, and the delay
\* slept after failed attempt n (from 0), which precedes attempt n + 1, is
\* 1 s * 2^n plus a jitter in [0, 100 ms).
C9_DelayAfterAttempt ==
    InRetryLoop =>
        /\ attempt = 0 => (delay = 0 /\ sleeps = 0)
        /\ attempt >= 1 =>
              /\ delay >= 1000 * 2^(attempt - 1)
              /\ delay < 1000 * 2^(attempt - 1) + 100
              /\ sleeps = attempt

\* The third failed attempt has been slept off with the largest jitter.
C9_Witness ==
    /\ InRetryLoop
    /\ attempt = 3
    /\ delay = 4099

\* C32 (sleep after the last attempt): no sleep precedes the first attempt; every
\* failed attempt, the fifth included, is followed in the same iteration by one
\* sleep of 1 s * 2^n plus a jitter below 100 ms; a call that returns the error
\* has slept 5 times, 1 + 2 + 4 + 8 + 16 = 31 seconds plus the jitters, the last
\* sleep being the one of 16 seconds.
C32_SleepAfterLastAttempt ==
    /\ [](InRetryLoop /\ requests = 0 => sleeps = 0 /\ delay = 0)
    /\ [](retried => sleeps = attempt)
    /\ []((RetryReturned /\ tret.err # Nil) =>
            /\ sleeps = 5
            /\ delay >= 16000 /\ delay < 16100
            /\ SleptAfter(sleeps) = 31000)
    /\ [][(InRetryLoop /\ requests' = requests + 1 /\ tpc' = "loop") =>
            /\ sleeps' = sleeps + 1
            /\ delay' >= 1000 * 2^attempt
            /\ delay' < 1000 * 2^attempt + 100]_vars

\* A call has returned the error after the fifth sleep, taken with the largest jitter.
C32_Witness ==
    /\ RetryReturned
    /\ tret.err # Nil
    /\ requests = 5
    /\ sleeps = 5
    /\ delay = 16099

\* C34 as claimed: the body of the service update request carries the description
\* and neither a name nor a uniqueName, and the request leaves the records of the
\* listing as they were.
C34_DescriptionOnly ==
    /\ [](req.kind = "updateService" =>
            DOMAIN req.body \cap {"name", "uniqueName"} = {})
    /\ [][req.kind = "updateService" => services' = services]_vars

\* C10 as claimed: every remote call goes through makeRequestWithRetry, so a call
\* hands a transport failure or a status >= 500 back to its operation only after
\* 5 requests.
C10_AllCallsRetried ==
    (tpc = "ret" /\ (tret.err # Nil \/ tret.resp.status >= 500)) =>
        /\ retried
        /\ requests = 5

\* The create and update calls of the log, in the order they were issued.
Upserts == SelectSeq(calls, LAMBDA c : c.kind \in {"create", "update"})

\* The calls of seq are for entries of the desired list at increasing positions.
InDesiredOrder(seq) ==
    \E f \in [1..Len(seq) -> 1..Len(desired)] :
        /\ \A i, j \in 1..Len(seq) : i < j => f[i] < f[j]
        /\ \A i \in 1..Len(seq) :
              /\ seq[i].name = desired[f[i]].name
              /\ seq[i].description = desired[f[i]].description
              /\ seq[i].validationMode = desired[f[i]].validation_mode

\* C28: while the fetch of a reconciliation is in progress it has issued no create,
\* update or delete call, and a create, update or delete request is on the wire
\* only past the fetch; the create and update calls are for entries of the desired
\* list at increasing positions; no create or update call follows a delete call.
C28_CallOrder ==
    Reconciling =>
        /\ pc = "fetch" => (calls = NoCalls /\ req.kind = "fetchDomains")
        /\ req.kind \in {"createDomain", "updateDomain", "deleteDomain"} =>
                pc \in {"create", "update", "delete"}
        /\ InDesiredOrder(Upserts)
        /\ \A i, j \in 1..Len(calls) :
              (i < j /\ calls[i].kind = "delete") => calls[j].kind = "delete"

\* A reconciliation of two desired names has succeeded with three calls: one for
\* the first entry, one for the second, then a delete.
C28_Witness ==
    /\ Succeeded
    /\ Len(desired) = 2 /\ desired[1].name # desired[2].name
    /\ Len(calls) = 3
    /\ calls[1].name = desired[1].name
    /\ calls[2].name = desired[2].name
    /\ calls[3].kind = "delete"

\* The position of the last entry of the desired list for a name.
LastOccurrence(name) ==
    CHOOSE i \in 1..Len(desired) :
        /\ desired[i].name = name
        /\ \A j \in 1..Len(desired) : desired[j].name = name => j <= i

\* C29: at most one create or update call is issued for a name, and it carries the
\* description and validation mode of the last entry of the desired list for that
\* name.
C29_LastOccurrenceWins ==
    Reconciling =>
        \A k \in 1..Len(Upserts) :
            /\ \A l \in 1..Len(Upserts) : Upserts[l].name = Upserts[k].name => l = k
            /\ Upserts[k].description = desired[LastOccurrence(Upserts[k].name)].description
            /\ Upserts[k].validationMode =
                    desired[LastOccurrence(Upserts[k].name)].validation_mode

----------------------------------------------------------------------------
(* Properties of configureReverseProxy, checked under SpecProxy *)

ConfiguringProxy == op = "configureReverseProxy"
FetchFailed ==
    ret # Nil /\ Head(ret) = "failed to fetch current reverse proxy state"
\* The options have been fetched and decoded: currentState is what the remote held.
StateFetched ==
    /\ ConfiguringProxy
    /\ pc \in {"disable", "configure"} \/ (pc = "done" /\ ~FetchFailed)
ProxyReturned == ConfiguringProxy /\ pc = "done"
DesiredDisabled == ~proxy.enabled /\ proxy.hostname = ""

\* C11: when the fetched reverse-proxy state is disabled and the desired state is
\* disabled (enabled false, hostname empty), configureReverseProxy has returned
\* right after the fetch, with no write call issued and no error.
C11_ProxyNoOp ==
    (StateFetched /\ ~currentState.enabled /\ DesiredDisabled) =>
        (pc = "done" /\ writes = <<>> /\ ret = Nil)

\* The remote holds a disabled proxy with its old fields, the desired state is
\* disabled, and the call has returned.
C11_Witness ==
    /\ ProxyReturned /\ StateFetched
    /\ ~currentState.enabled /\ currentState.hostname # ""
    /\ DesiredDisabled

DesiredEnabled == proxy.enabled \/ proxy.hostname # ""
MissingCredentials == proxy.accessKey = "" \/ proxy.secretKey = "" \/ proxy.region = ""
EnablingInvalid == DesiredEnabled /\ proxy.mode = "OBJECT_STORAGE" /\ MissingCredentials

\* C12, as stated: configureReverseProxy returns the validation error for
\* OBJECT_STORAGE with a missing credential having issued no request at all, so
\* the step that returns this error finds no HTTP request sent by the call.
C12_NoRequestAtAll ==
    [][(ConfiguringProxy /\ pc # "done" /\ pc' = "done" /\ ret' = credentialsError)
        => requests = 0]_vars

\* C12, amended: once the current options are fetched, enabling with mode
\* OBJECT_STORAGE and a missing accessKey, secretKey or region has returned the
\* validation error with no write call issued; the fetch is the only call made.
C12_FailsBeforeWrite ==
    (StateFetched /\ EnablingInvalid) =>
        (pc = "done" /\ ret = credentialsError /\ writes = <<>>)

\* Only the secretKey is missing, and the call has returned the validation error.
C12_Witness ==
    /\ ProxyReturned /\ StateFetched /\ EnablingInvalid
    /\ proxy.secretKey = "" /\ proxy.accessKey # "" /\ proxy.region # ""
    /\ ret = credentialsError

\* A reverseProxy document that names mode OBJECT_STORAGE names the three
\* credentials too, none of them empty.
CarriesCredentials(doc) ==
    ("mode" \in DOMAIN doc /\ doc.mode = "OBJECT_STORAGE") =>
        /\ {"accessKey", "secretKey", "region"} \subseteq DOMAIN doc
        /\ doc.accessKey # "" /\ doc.secretKey # "" /\ doc.region # ""

\* C13: no options write with mode OBJECT_STORAGE and an empty accessKey, secretKey
\* or region is ever issued or on the wire; for such an input the call returns an
\* error, the local validation error once the fetch succeeded, and issues no PUT.
C13_NoStorageWriteWithoutCredentials ==
    /\ \A i \in 1..Len(writes) : CarriesCredentials(writes[i].reverseProxy)
    /\ req.kind = "putOptions" => CarriesCredentials(req.body.reverseProxy)
    /\ (ProxyReturned /\ EnablingInvalid) =>
            /\ writes = <<>>
            /\ ret # Nil
            /\ ~FetchFailed => ret = credentialsError

\* The accessKey and the region are missing, the remote proxy is enabled, and the
\* call has returned without a write.
C13_Witness ==
    /\ ProxyReturned /\ StateFetched /\ EnablingInvalid
    /\ proxy.accessKey = "" /\ proxy.region = "" /\ proxy.secretKey # ""
    /\ currentState.enabled
    /\ writes = <<>>

\* C14: with a non-empty desired hostname the call never takes the disable branch
\* and never returns through the no-op: whatever the enabled flag, every write
\* carries enabled = TRUE, and once the state is fetched the call either issues
\* such a write or returns the validation error.
C14_AutoEnable ==
    (ConfiguringProxy /\ proxy.hostname # "") =>
        /\ pc # "disable"
        /\ \A i \in 1..Len(writes) : writes[i].reverseProxy.enabled
        /\ (ProxyReturned /\ StateFetched) => (writes # <<>> \/ ret = credentialsError)

\* The hostname is set, the flag is false and the remote proxy is disabled: the
\* call has written an enabled configuration and returned.
C14_Witness ==
    /\ ProxyReturned /\ StateFetched
    /\ proxy.hostname # "" /\ ~proxy.enabled /\ ~currentState.enabled
    /\ Len(writes) = 1 /\ writes[1].reverseProxy.enabled
    /\ ret = Nil

DisableCase == StateFetched /\ DesiredDisabled /\ currentState.enabled

\* The remote options change in no field but reverseProxy.enabled.
OnlyEnabledChanges ==
    /\ options'.error_ttl = options.error_ttl
    /\ options'.edgetoorigin = options.edgetoorigin
    /\ \A f \in DOMAIN options.reverseProxy \ {"enabled"} :
            options'.reverseProxy[f] = options.reverseProxy[f]

\* C15: when the desired state is disabled and the fetched state is enabled, the
\* call issues exactly one write, whose body is the reverseProxy document with the
\* single field enabled = FALSE; no step of the call changes another field of the
\* remote options, and after a successful return the remote proxy is disabled
\* with the fetched hostname, mode, ttl and other fields.
C15_DisableIsToggle ==
    /\ [](DisableCase =>
            /\ writes = <<[reverseProxy |-> [enabled |-> FALSE]]>>
            /\ (pc = "done" /\ ret = Nil) =>
                    options.reverseProxy = [currentState EXCEPT !.enabled = FALSE])
    /\ [][(ConfiguringProxy /\ DesiredDisabled) => OnlyEnabledChanges]_vars

\* The remote proxy was enabled with every field set; the call has disabled it and
\* returned, and the remote still holds the old hostname.
C15_Witness ==
    /\ ProxyReturned /\ DisableCase /\ ret = Nil
    /\ ~options.reverseProxy.enabled
    /\ options.reverseProxy.hostname = "old.example"
    /\ options.edgetoorigin

EnableCase == StateFetched /\ DesiredEnabled /\ ~EnablingInvalid
PlainFields ==
    {"hostname", "mode", "ttl", "cacheByQueryParam", "originScheme", "useRobotsTxt"}
CredentialFields == {"accessKey", "secretKey", "region"}

\* C16: when desired is enabled (and valid), the call issues a single write whose
\* reverseProxy document carries enabled = TRUE and the desired hostname, mode, ttl,
\* cacheByQueryParam, originScheme and useRobotsTxt; prepend exactly when mode is
\* WEB and prepend is non-empty; each of accessKey, secretKey and region exactly
\* when mode is OBJECT_STORAGE; bucket only when bucket is non-empty; and no
\* other field.
C16_EnablePayload ==
    EnableCase =>
        /\ Len(writes) = 1
        /\ DOMAIN writes[1] = {"reverseProxy"}
        /\ LET doc == writes[1].reverseProxy IN
           /\ "enabled" \in DOMAIN doc /\ doc.enabled = TRUE
           /\ \A f \in PlainFields : f \in DOMAIN doc /\ doc[f] = proxy[f]
           /\ "prepend" \in DOMAIN doc <=> (proxy.mode = "WEB" /\ proxy.prepend # "")
           /\ \A f \in CredentialFields :
                f \in DOMAIN doc <=> proxy.mode = "OBJECT_STORAGE"
           /\ "bucket" \in DOMAIN doc => proxy.bucket # ""
           /\ \A f \in DOMAIN doc \ ({"enabled"} \cup PlainFields) : doc[f] = proxy[f]
           /\ DOMAIN doc \subseteq
                {"enabled", "prepend", "bucket"} \cup PlainFields \cup CredentialFields

\* An OBJECT_STORAGE configuration with a bucket and a prepend has been written:
\* the write carries the bucket and no prepend, and the call has returned.
C16_Witness ==
    /\ ProxyReturned /\ EnableCase /\ ret = Nil
    /\ proxy.mode = "OBJECT_STORAGE" /\ proxy.prepend # "" /\ proxy.bucket # ""
    /\ "bucket" \in DOMAIN writes[1].reverseProxy
    /\ "prepend" \notin DOMAIN writes[1].reverseProxy

\* The fetched state equals the desired enabled configuration in every field.
AlreadyConfigured ==
    StateFetched /\ DesiredEnabled /\ currentState = [proxy EXCEPT !.enabled = TRUE]

\* C26, as stated: when the fetched reverse-proxy configuration already equals the
\* desired enabled configuration in every field, configureReverseProxy issues no
\* write call.
C26_NoWriteWhenEqual == AlreadyConfigured => writes = <<>>

\* C26, amended: once the state is fetched, configureReverseProxy has issued no
\* write call exactly when current and desired are both disabled or the desired
\* configuration misses a credential; in every other case it has issued one write
\* call, also when the fetched configuration equals the desired one in every field.
C26_WriteUnlessBothDisabled ==
    StateFetched =>
        /\ Len(writes) <= 1
        /\ writes = <<>> <=> \/ ~currentState.enabled /\ DesiredDisabled
                             \/ EnablingInvalid
        /\ AlreadyConfigured => writes = <<enablePayload([proxy EXCEPT !.enabled = TRUE])>>

\* The remote held the desired configuration, and the call has returned after
\* writing it once more; the remote document is what it was.
C26_Witness ==
    /\ ProxyReturned /\ AlreadyConfigured
    /\ ret = Nil
    /\ Len(writes) = 1
    /\ options.reverseProxy = currentState

----------------------------------------------------------------------------
(* Properties of the resource handlers, checked under SpecLifecycle *)

Creating == handler = "create"
HandlerReturned == hpc = "done"
\* The unique name create asks for: the configured one, in lower case.
RequestedName == IF uniqueName = MixedCaseName THEN ManagedName ELSE uniqueName
HCallKinds == {hcalls[i].kind : i \in 1..Len(hcalls)}
FoundDeactivated == Creating /\ found # NoService /\ found.status = "DEACTIVATED"
FoundActive == Creating /\ found # NoService /\ found.status = "ACTIVE"

\* C17: when the listing holds a record with the requested uniqueName and status
\* DEACTIVATED, create calls activate for that record's id right after the listing,
\* never calls create-service, and a create that returns without error has that
\* record's id as the resource id.
C17_Reactivation ==
    FoundDeactivated =>
        /\ found.uniqueName = RequestedName
        /\ Len(hcalls) >= 2 /\ hcalls[2] = HCall("activateService", found.id)
        /\ "createService" \notin HCallKinds
        /\ req.kind # "createService"
        /\ req.kind = "activateService" => req.id = found.id
        /\ resourceId \in {0, found.id}
        /\ (HandlerReturned /\ diags = Nil) => resourceId = found.id

\* A create for the name in mixed case has found the deactivated record,
\* reactivated it and returned its id; the remote record is active again.
C17_Witness ==
    /\ FoundDeactivated /\ HandlerReturned /\ diags = Nil
    /\ uniqueName = MixedCaseName
    /\ resourceId = found.id
    /\ Service(found.id, found.uniqueName, "ACTIVE") \in services

\* C18: when the listing holds an active record with the requested uniqueName,
\* create has returned the conflict error with the listing as its only call: no
\* create-service, activate, options or domain call, nothing on the wire, no id.
C18_Conflict ==
    FoundActive =>
        /\ found.uniqueName = RequestedName
        /\ HandlerReturned
        /\ diags = conflictError
        /\ hcalls = <<HCall("listServices", 0)>>
        /\ req = NoRequest
        /\ writes = <<>> /\ calls = NoCalls
        /\ resourceId = 0

\* A create has met the active record of its name and returned the conflict.
C18_Witness ==
    /\ FoundActive /\ HandlerReturned
    /\ diags = conflictError
    /\ Service(found.id, RequestedName, "ACTIVE") \in services

FoundOther == Creating /\ found # NoService /\ found.status # "DEACTIVATED"

\* C36: when the listing holds a record with the requested uniqueName whose status
\* is anything but exactly DEACTIVATED, create has returned the conflict error
\* with the listing as its only call and no write; create calls activate only
\* for a record whose status is exactly DEACTIVATED.
C36_ConflictUnlessDeactivated ==
    /\ FoundOther =>
        /\ HandlerReturned
        /\ diags = conflictError
        /\ HCallKinds = {"listServices"}
        /\ req = NoRequest
        /\ writes = <<>> /\ calls = NoCalls
        /\ found \in services
    /\ (Creating /\ ("activateService" \in HCallKinds \/ req.kind = "activateService")) =>
        found.status = "DEACTIVATED"

\* A create has met a record of its name whose status is pending or spelled in
\* lower case, and returned the conflict.
C36_Witness ==
    /\ FoundOther /\ HandlerReturned
    /\ found.status \in {"deactivated", "PENDING"}
    /\ found.uniqueName = RequestedName
    /\ diags = conflictError

\* The listing that has come back to create is a decoded 200 response.
ListingReturned ==
    /\ Creating /\ hpc = "list" /\ tpc = "ret"
    /\ tret.err = Nil /\ tret.resp.status = 200 /\ tret.resp.decodable
Named(list) == {x \in list : x.uniqueName = RequestedName}

\* C19: the step of create that handles the listing issues POST /services exactly
\* when the listing came back and holds no record whose uniqueName equals the
\* requested one, and no other step issues it; the remote never holds two records
\* of the requested name, and once the request has succeeded it holds exactly one,
\* under the id create records.
C19_CreateIffNoMatch ==
    /\ [][(req'.kind = "createService" /\ req.kind # "createService") <=>
            (ListingReturned /\ hpc' # "list" /\ Named(tret.resp.data) = {})]_vars
    /\ [](Creating =>
            /\ Cardinality(Named(services)) <= 1
            /\ ("createService" \in HCallKinds /\ resourceId # 0) =>
                    Named(services) = {Service(resourceId, RequestedName, "ACTIVE")})

\* With only the other name in the listing, a create for the name in mixed case
\* has issued the request and returned with the id of the one new record.
C19_Witness ==
    /\ Creating /\ HandlerReturned /\ diags = Nil
    /\ uniqueName = MixedCaseName
    /\ "createService" \in HCallKinds
    /\ Cardinality(services) = 2
    /\ Named(services) = {Service(resourceId, ManagedName, "ACTIVE")}

ServiceIds == {x.id : x \in services}

\* C20: no request with method DELETE is ever on the wire except the delete of a
\* domain record; the delete handler calls nothing but deactivateService, sent as
\* a PUT; and no step removes a record from the remote service set.
C20_NoHardDelete ==
    /\ [](req.method = "DELETE" => req.kind = "deleteDomain")
    /\ [](handler = "delete" =>
            /\ HCallKinds \subseteq {"deactivateService"}
            /\ req.kind \in {"none", "deactivateService"}
            /\ req.kind = "deactivateService" =>
                    (req.method = "PUT" /\ req.id = resourceId))
    /\ [][ServiceIds \subseteq {x.id : x \in services'}]_vars

\* A delete has succeeded: the resource has no id any more and the remote still
\* holds the record, deactivated.
C20_Witness ==
    /\ handler = "delete" /\ HandlerReturned /\ diags = Nil
    /\ resourceId = 0
    /\ Service(ManagedId, ManagedName, "DEACTIVATED") \in services

HCalls == {hcalls[i] : i \in 1..Len(hcalls)}
CreateSucceeded == Creating /\ HandlerReturned /\ diags = Nil /\ resourceId # 0

\* C22: a create that has returned without error, after a new creation or after a
\* reactivation, has called configureReverseProxy for the resolved id, and has
\* called manageServiceDomains for it when the configuration names domains.
C22_ConfiguredBeforeReturn ==
    CreateSucceeded =>
        /\ HCall("configureReverseProxy", resourceId) \in HCalls
        /\ desired # <<>> => HCall("manageServiceDomains", resourceId) \in HCalls

\* C23: when a create that made a new service has returned without error, the
\* remote options hold the hostname_pass_through value of the configuration, and
\* a value of true was written to the remote by the create.
C23_PassThroughOnCreate ==
    (CreateSucceeded /\ "createService" \in HCallKinds) =>
        /\ options.edgetoorigin = passThrough
        /\ passThrough => "putPassThrough" \in HCallKinds

HandlerRunning == handler \in {"create", "update", "delete"} /\ ~HandlerIdle

\* The transport has handed back a call that failed: a transport failure after the
\* retries, a status outside 2xx, or a body that does not decode where the caller
\* decodes it.
CallFailed ==
    /\ HandlerRunning /\ tpc = "ret"
    /\ \/ tret.err # Nil
       \/ tret.resp.status < 200 \/ tret.resp.status >= 300
       \/ /\ req.kind \in {"fetchDomains", "getOptions", "listServices",
                            "createService", "getService"}
          /\ ~tret.resp.decodable

\* An operation called by the handler has returned an error to it.
CalleeFailed == HandlerRunning /\ op # "none" /\ pc = "done" /\ ret # Nil

\* C25: in create, update and delete, the step that takes a failed call either puts
\* an error in the diagnostics of the handler or makes the operation that issued
\* the call return an error; the step that takes an error from such an operation
\* puts an error in the diagnostics; diagnostics that hold an error keep one until
\* the handler returns. So no handler returns without error after a failed call.
C25_NoFailureSwallowed ==
    [][/\ CallFailed => (diags' # Nil \/ (pc' = "done" /\ ret' # Nil))
       /\ CalleeFailed => diags' # Nil
       /\ (HandlerRunning /\ diags # Nil) => diags' # Nil]_vars

\* A create has made the service, its domain reconciliation has failed, and the
\* create has returned the error.
C25_Witness ==
    /\ Creating /\ HandlerReturned
    /\ resourceId # 0
    /\ "manageServiceDomains" \in HCallKinds
    /\ diags # Nil
    /\ Service(resourceId, RequestedName, "ACTIVE") \in services

WritingErrorTTL == HandlerRunning /\ hpc = "errorTTL"
WritingPassThrough == HandlerRunning /\ hpc = "passThrough"
CallsOfKind(kind) == {i \in 1..Len(hcalls) : hcalls[i].kind = kind}

\* C27: a handler run makes at most one error_ttl write call and at most one
\* pass-through write call; the document of the first names error_ttl only, that
\* of the second edgetoorigin only, with the value of the configuration; while
\* the error_ttl write is in progress no step changes the reverse proxy or the
\* pass-through at the remote, and while the pass-through write is in progress
\* no step changes the reverse proxy or the error TTL.
C27_SingleSubFieldWrite ==
    /\ [](/\ Cardinality(CallsOfKind("putErrorTTL")) <= 1
          /\ Cardinality(CallsOfKind("putPassThrough")) <= 1)
    /\ [](WritingErrorTTL =>
            /\ req.kind = "putOptions" /\ req.id = resourceId
            /\ DOMAIN req.body = {"error_ttl"}
            /\ errorTTLProvided =>
                    req.body.error_ttl = [enabled |-> errorTtl.enabled,
                                          value |-> errorTtl.value])
    /\ [](WritingPassThrough =>
            /\ req.kind = "putOptions" /\ req.id = resourceId
            /\ req.body = [edgetoorigin |-> passThrough])
    /\ [][/\ WritingErrorTTL =>
                /\ options'.reverseProxy = options.reverseProxy
                /\ options'.edgetoorigin = options.edgetoorigin
          /\ WritingPassThrough =>
                /\ options'.reverseProxy = options.reverseProxy
                /\ options'.error_ttl = options.error_ttl]_vars

\* An update has written the error TTL and the pass-through, one call each, and
\* returned: the remote holds both, beside the reverse proxy it held before.
C27_Witness ==
    /\ handler = "update" /\ HandlerReturned /\ diags = Nil
    /\ Cardinality(CallsOfKind("putErrorTTL")) = 1
    /\ Cardinality(CallsOfKind("putPassThrough")) = 1
    /\ errorTTLProvided
    /\ options = ServiceOptions(ZeroReverseProxy,
                                [enabled |-> errorTtl.enabled, value |-> errorTtl.value],
                                passThrough)

\* C30: over any succession of create and delete (and update) runs for the name,
\* the remote never holds two records of it; a create-service request is issued
\* only while the remote holds no record of the name, and only then does the
\* remote gain a record; the id a create records is that of the one record of the
\* name, so a create that follows a delete records the deactivated record's id.
C30_OneRecordPerName ==
    /\ [](Cardinality(Named(services)) <= 1)
    /\ [][/\ (req'.kind = "createService" /\ req.kind # "createService") =>
                Named(services) = {}
          /\ ServiceIds # {x.id : x \in services'} =>
                (Named(services) = {} /\ Cardinality(Named(services')) = 1)
          /\ (Creating /\ resourceId = 0 /\ resourceId' # 0) =>
                Named(services') = {Service(resourceId', RequestedName, "ACTIVE")}]_vars

\* A delete has deactivated the service of the resource, and the create that
\* followed has returned the id of that same record, now active again and the
\* only record of the name.
C30_Witness ==
    /\ svcStatus = "DEACTIVATED"
    /\ runs = 2
    /\ CreateSucceeded /\ FoundDeactivated
    /\ resourceId = ManagedId
    /\ Named(services) = {Service(ManagedId, ManagedName, "ACTIVE")}

----------------------------------------------------------------------------
(* Properties of the read handler, checked under SpecRead *)

\* The answer to GET /services/{id} has come back to the read handler.
ServiceAnswered == handler = "read" /\ hpc = "readService" /\ tpc = "ret"
AnsweredNotFound == ServiceAnswered /\ tret.err = Nil /\ tret.resp.status = 404
AnsweredRecord ==
    ServiceAnswered /\ tret.err = Nil /\ tret.resp.status = 200 /\ tret.resp.decodable

\* C21: on a not-found answer fetchServiceDetails returns no record and no error;
\* on a transport failure, any other status than 200, or an undecodable body it
\* returns an error; it returns a record exactly on a decoded 200. The step of read
\* that takes the empty result clears the resource id and returns no diagnostic;
\* the step that takes an error keeps the id and returns the error.
C21_NotFoundIsEmpty ==
    /\ [](ServiceAnswered =>
            LET f == fetchServiceDetails(tret) IN
            /\ AnsweredNotFound => (f.service = NoService /\ f.err = Nil)
            /\ AnsweredRecord => (f.service \in services /\ f.service.id = resourceId
                                  /\ f.err = Nil)
            /\ (~AnsweredNotFound /\ ~AnsweredRecord) =>
                    (f.service = NoService /\ f.err # Nil))
    /\ [][/\ AnsweredNotFound => (resourceId' = 0 /\ diags' = Nil /\ hpc' = "done")
          /\ (ServiceAnswered /\ ~AnsweredNotFound /\ ~AnsweredRecord) =>
                (resourceId' = resourceId /\ diags' # Nil /\ hpc' = "done")]_vars
    /\ [](handler = "read" /\ resourceId = 0 => hpc = "done" /\ diags = Nil)

\* The service is gone from the remote and the read has returned without a
\* diagnostic, the resource id cleared.
C21_Witness ==
    /\ handler = "read" /\ hpc = "done"
    /\ resourceId = 0 /\ diags = Nil
    /\ hcalls = <<HCall("getService", ManagedId)>>
    /\ ~\E x \in services : x.id = ManagedId

----------------------------------------------------------------------------
(* Properties of two concurrent reconciliations, checked under SpecRace *)

\* The remote holds the names of the list of call p and the default names, each
\* listed name with the listed fields.
PeerMatches(p) ==
    LET want == {peers[p].desired[i] : i \in 1..Len(peers[p].desired)} IN
    /\ {d.name : d \in remote} =
            {w.name : w \in want} \cup {d.name : d \in {x \in remote : isDefaultDomain(x.name)}}
    /\ \A w \in want : \E d \in remote :
            /\ d.name = w.name
            /\ d.description = w.description
            /\ d.validationMode = w.validation_mode

PeerSucceeded(p) == peers[p].pc = "done" /\ peers[p].ret = Nil

\* C24: a reconciliation that returns success while no other call was made
\* leaves the remote domain set matching its desired list plus the defaults; two
\* that both return success and leave the remote matching neither were given
\* different lists. The witness is the lost update: both calls returned
\* success and the remote matches neither list.
C24_LostUpdate ==
    /\ \A p \in Peers :
            (PeerSucceeded(p) /\ \A q \in Peers \ {p} : peers[q].pc = "none")
                => PeerMatches(p)
    /\ (\A p \in Peers : PeerSucceeded(p) /\ ~PeerMatches(p))
            => peers[1].desired # peers[2].desired

C24_Witness ==
    /\ \A p \in Peers : PeerSucceeded(p) /\ ~PeerMatches(p)
    /\ peers[1].desired # peers[2].desired

----------------------------------------------------------------------------
(* Properties of two concurrent creates, checked under SpecCreators *)

Posted == {p \in Peers : peers[p].pc = "done" /\ peers[p].posted}
RecordsOf(list, name) == {x \in list : x.uniqueName = name}

\* C31 as claimed: of two concurrent creates for one uniqueName at most one
\* issues a create-service request.
C31_OnePost == Cardinality(Posted) <= 1

\* C31 (concurrent creates, amended): a create issues the create-service request
\* when its own listing holds no record of the name, whatever the other create
\* has done since; two creates can both issue it. The remote, which keeps
\* uniqueName unique, creates at most one record: at most one of the two returns
\* a created record, and the other returns the error of the refused request,
\* which is not the conflict error.
C31_PostAfterOwnListing ==
    /\ \A p \in Posted :
        /\ RecordsOf(peers[p].listing, RequestedName) = {}
        /\ peers[p].ret # conflictError
        /\ peers[p].ret = Nil =>
                Service(peers[p].id, RequestedName, "ACTIVE") \in services
    /\ Cardinality(RecordsOf(services, RequestedName)) <= 1
    /\ Cardinality({p \in Posted : peers[p].ret = Nil}) <= 1

\* Both creates have issued the create-service request: one has its record, the
\* other the refusal of the remote.
C31_Witness ==
    /\ Posted = Peers
    /\ \E p, q \in Peers :
        /\ peers[p].ret = Nil
        /\ peers[q].ret = <<"HTTP 404">>

----------------------------------------------------------------------------
(* Properties of a create that fails behind the create-service request, *)
(* checked under SpecCreate                                              *)

\* Create has returned an error after its create-service request gave it a record.
FailedBehindPost ==
    /\ Creating /\ HandlerReturned
    /\ "createService" \in HCallKinds
    /\ resourceId # 0
    /\ diags # Nil

\* A later create is past its listing, which it took while the name was taken.
LaterCreatePastListing ==
    /\ Creating /\ runs >= 2 /\ hpc # "list"
    /\ "createService" \notin HCallKinds
    /\ RecordsOf(services, RequestedName) # {}

\* C37: a create whose create-service request succeeded and whose later step
\* failed returns the error in the step that meets it, with no further call; it
\* has made no deactivate, delete or other call that takes the record back, and
\* the record is active at the remote under the id the create has set. A create
\* for the same name that follows finds the record and returns the conflict
\* error (or the error of its listing) without a create-service request.
C37_NoCompensation ==
    /\ [](FailedBehindPost =>
            /\ HCallKinds \cap {"deactivateService", "deleteService", "activateService"} = {}
            /\ req.kind \notin {"deactivateService", "deleteService"}
            /\ Service(resourceId, RequestedName, "ACTIVE") \in services)
    /\ [][(Creating /\ "createService" \in HCallKinds /\ diags = Nil /\ diags' # Nil) =>
            /\ hpc' = "done"
            /\ hcalls' = hcalls
            /\ req' = NoRequest
            /\ services' = services]_vars
    /\ [](LaterCreatePastListing =>
            /\ HandlerReturned
            /\ resourceId = 0
            /\ found = NoService => diags # Nil
            /\ found # NoService => (found.status = "ACTIVE" /\ diags = conflictError))

\* The first create configured the reverse proxy and failed at a later step; the
\* create that followed has met the active record and returned the conflict.
C37_Witness ==
    /\ LaterCreatePastListing /\ HandlerReturned
    /\ diags = conflictError
    /\ options.reverseProxy.enabled
    /\ desired # <<>>
    /\ aCom \notin RemoteNames

\* The options document has come back to the read as a decoded 200 response.
OptionsArrived ==
    /\ hpc = "readOptions" /\ tpc = "ret"
    /\ tret.err = Nil /\ tret.resp.status = 200 /\ tret.resp.decodable

\* C38: getServiceOptions reports the error TTL as absent whenever the remote
\* document has no value field, whatever its enabled flag; it reports the record
\* of the remote, flag and value, only when a value is present, and a value of
\* zero is reported as a record with value zero, not as absent.
C38_ValueDecidesPresence ==
    OptionsArrived =>
        LET doc == options.error_ttl
            g == getServiceOptions(tret) IN
        /\ g.err = Nil
        /\ "value" \notin DOMAIN doc => g.errorTTL = NullTTL
        /\ "value" \in DOMAIN doc =>
              /\ g.errorTTL # NullTTL
              /\ g.errorTTL.enabled = doc.enabled
              /\ g.errorTTL.value = doc.value

\* The read has received a document whose error TTL is enabled and carries no
\* value.
C38_Witness ==
    /\ OptionsArrived
    /\ options.error_ttl = [enabled |-> TRUE]
    /\ getServiceOptions(tret).errorTTL = NullTTL

====
